---- MODULE Spec2Model ----
(***************************************************************************)
(* StudyRAG: the ingestion-to-retrieval pipeline.                          *)
(*                                                                         *)
(* VectorStore (backend/app/rag/retriever.py), ChatBot (rag/chat.py),      *)
(* ingest (rag/loader.py), the session table (db.py) and the HTTP handlers *)
(* (main.py), as state machines over the files they persist.               *)
(*                                                                         *)
(* Python's None and a missing file are the empty sequence, a present      *)
(* value x is <<x>>.  Embedding vectors are sequences of integers; a       *)
(* float of the code is a fixed-point number with Unit standing for 1.0,   *)
(* so a similarity score of Unit * Unit is cosine 1.0.                     *)
(***************************************************************************)
EXTENDS Integers, Sequences, FiniteSets, TLC

VARIABLES
    settings,       \* config.Settings(): the retrieval switches
    sessions,       \* db: the sessions table, session_id -> row
    issued,         \* the session ids uuid4 has handed out
    chunker,        \* chunk_text's call in progress: arguments and locals
    index_files,    \* disk: "<path>.index", path -> faiss index file
    meta_files,     \* disk: "<path>.meta", path -> pickled bundle
    history_files,  \* disk: chat history json files, path -> content
    chat_sessions,  \* main.chat_sessions: session_id -> cached ChatBot
    vs,             \* VectorStore objects held by library callers / ingest calls
    bot,            \* a ChatBot object held by a library caller (chat.main, tests)
    pc,             \* position of each ingest call that runs step by step
    doc,            \* the document each step-by-step ingest call is ingesting
    ret             \* what the last call returned or raised

vars == <<settings, sessions, issued, chunker, index_files, meta_files, history_files,
          chat_sessions, vs, bot, pc, doc, ret>>

----------------------------------------------------------------------------
(* Bounds of the model *)

MaxEntries == 3     \* entries one index may hold
MaxMessages == 2    \* messages one conversation may hold
MaxHistory == 4     \* messages a conversation may hold where its history is followed
MaxUploaded == 2    \* vectors the HTTP clients may have on disk in all
MaxTextLen == 5     \* characters of a text handed to chunk_text
MaxChunkSize == 3   \* tokens of the largest chunk_size handed to chunk_text
MaxChunks == 5      \* chunks chunk_text's loop is followed for

----------------------------------------------------------------------------
(* Optional values *)

None == << >>
Some(x) == <<x>>
Get(o) == o[1]

Min(a, b) == IF a <= b THEN a ELSE b

RECURSIVE SumSeq(_)
SumSeq(s) == IF s = << >> THEN 0 ELSE Head(s) + SumSeq(Tail(s))

RECURSIVE Flatten(_)
Flatten(ss) == IF ss = << >> THEN << >> ELSE Head(ss) \o Flatten(Tail(ss))

----------------------------------------------------------------------------
(* Identifiers, paths and inputs *)

SessionIds == {"s1", "s2"}
Inst == {1, 2}
Procs == {1, 2}

\* settings.VECTORS_DIR / settings.HISTORY_DIR joined with a session id
VectorsDirPath(sid) == "data/vectors/" \o sid
VectorsJsonPath(sid) == "data/vectors/" \o sid \o ".json"
HistoryJsonPath(sid) == "data/history/" \o sid \o ".json"

\* paths a client may hand to POST/PATCH /api/sessions
ClientVectorPaths == {VectorsDirPath("s1")}
ClientHistoryPaths == {HistoryJsonPath("s1")}

VectorPaths == {VectorsDirPath(s) : s \in SessionIds}
                 \cup {VectorsJsonPath(s) : s \in SessionIds}
HistoryPaths == {HistoryJsonPath(s) : s \in SessionIds}

\* the storage path the library-level callers work on
StorePath == VectorsDirPath("s1")
StoreHistoryPath == HistoryJsonPath("s1")

\* documents: what extract_text + clean_text + chunk_text make of each file
Docs == {"d1.txt", "d2.txt", "blank.txt"}
Chunks(file) ==
    CASE file = "d1.txt" -> <<"alpha">>
      [] file = "d2.txt" -> <<"beta", "gamma">>
      [] file = "wide.txt" -> <<"delta">>
      [] OTHER -> << >>

\* a document whose vectors were made by an embedding model of another
\* dimension
OtherModelFiles == {"wide.txt"}

\* the embedding provider's answer for a text
Unit == 5
Embedding(text) ==
    CASE text = "alpha" -> <<3, 4>>
      [] text = "beta" -> <<4, 3>>
      [] text = "gamma" -> <<6, 8>>
      [] text = "q-east" -> <<10, 0>>
      [] text = "delta" -> <<3, 4, 0>>
      [] OTHER -> <<3, 4>>

Queries == {"q-east", "alpha"}
Categories == {"notes"}
TopKs == {None} \cup {Some(k) : k \in 0 .. MaxEntries + 1}

----------------------------------------------------------------------------
(* Settings (config.py) *)

TOP_K_RESULTS == 1000
EMBEDDING_MODEL == "nomic-embed-text"

----------------------------------------------------------------------------
(* faiss: normalize_L2, IndexFlatIP, write_index / read_index *)

ISqrt(n) == CHOOSE r \in 0 .. n : r * r <= n /\ (r + 1) * (r + 1) > n

Dot(a, b) == SumSeq([i \in 1 .. Len(a) |-> a[i] * b[i]])

\* faiss.normalize_L2 on one row: a zero row is left as it is
normalize_L2(v) ==
    LET norm == ISqrt(Dot(v, v))
    IN IF norm = 0 THEN v ELSE [i \in 1 .. Len(v) |-> (v[i] * Unit) \div norm]

IndexFlatIP(d) == [d |-> d, xb |-> << >>]
ntotal(index) == Len(index.xb)

\* index.add(x): the rows must have the index's dimension
index_add_ok(index, rows) == \A i \in 1 .. Len(rows) : Len(rows[i]) = index.d
index_add(index, rows) == [index EXCEPT !.xb = @ \o rows]

\* index.search(q, k): the k best inner products, best first
RECURSIVE TopIds(_, _, _)
TopIds(score, left, k) ==
    IF k = 0 \/ left = {} THEN << >>
    ELSE LET best == CHOOSE i \in left :
                        \A j \in left : score[i] > score[j]
                                          \/ (score[i] = score[j] /\ i <= j)
         IN <<best>> \o TopIds(score, left \ {best}, k - 1)

index_search(index, q, k) ==
    LET score == [i \in 1 .. ntotal(index) |-> Dot(index.xb[i], q)]
        ids == TopIds(score, 1 .. ntotal(index), k)
    IN [i \in 1 .. Len(ids) |-> [idx |-> ids[i], distance |-> score[ids[i]]]]

\* faiss.write_index: dimension, count and the rows laid out flat
write_index(index) ==
    [d |-> index.d, ntotal |-> ntotal(index), codes |-> Flatten(index.xb)]

read_index(file) ==
    [d |-> file.d,
     xb |-> [i \in 1 .. file.ntotal |->
                SubSeq(file.codes, (i - 1) * file.d + 1, i * file.d)]]

----------------------------------------------------------------------------
(* VectorStore (retriever.py) *)

\* the object before load(): __init__'s field assignments
EmptyStore(storage_path) ==
    [storage_path |-> storage_path, index |-> None, metadata |-> << >>,
     dimension |-> None]

\* load() that restores the index and the metadata but not the dimension
load_forgets_dimension(self, ifile, mfile) ==
    IF ifile # None /\ mfile # None
    THEN [self EXCEPT !.index = Some(read_index(Get(ifile))),
                      !.metadata = Get(mfile).metadata]
    ELSE self

\* VectorStore.load: both files must exist, else the object is left as it is
load(self, ifile, mfile) ==
    IF ifile # None /\ mfile # None
    THEN [self EXCEPT !.index = Some(read_index(Get(ifile))),
                      !.metadata = Get(mfile).metadata,
                      !.dimension = Get(mfile).dimension]
    ELSE self

\* VectorStore.__init__
VectorStore(storage_path, ifile, mfile) ==
    load(EmptyStore(storage_path), ifile, mfile)

Count(self) == IF self.index = None THEN 0 ELSE ntotal(Get(self.index))

Ragged(vectors) == \E i \in 1 .. Len(vectors) : Len(vectors[i]) # Len(vectors[1])

\* add() that appends the rows to the index but not their metadata records
add_memory_forgets_metadata(self, vectors, metadata) ==
    IF vectors = << >>
    THEN [status |-> "ok", self |-> self, saves |-> FALSE]
    ELSE LET ready == IF self.index = None
                      THEN [self EXCEPT !.dimension = Some(Len(vectors[1])),
                                        !.index = Some(IndexFlatIP(Len(vectors[1])))]
                      ELSE self
             rows == [i \in 1 .. Len(vectors) |-> normalize_L2(vectors[i])]
         IN [status |-> "ok",
             self |-> [ready EXCEPT
                          !.index = Some(index_add(Get(ready.index), rows))],
             saves |-> TRUE]

\* add() that extends the metadata list before index.add checks the rows
add_memory_metadata_first(self, vectors, metadata) ==
    IF vectors = << >>
    THEN [status |-> "ok", self |-> self, saves |-> FALSE]
    ELSE IF Ragged(vectors)
    THEN [status |-> "ValueError", self |-> self, saves |-> FALSE]
    ELSE LET ready == IF self.index = None
                      THEN [self EXCEPT !.dimension = Some(Len(vectors[1])),
                                        !.index = Some(IndexFlatIP(Len(vectors[1])))]
                      ELSE self
             rows == [i \in 1 .. Len(vectors) |-> normalize_L2(vectors[i])]
             extended == [ready EXCEPT !.metadata = @ \o metadata]
         IN IF ~index_add_ok(Get(ready.index), rows)
            THEN [status |-> "AssertionError", self |-> extended, saves |-> FALSE]
            ELSE [status |-> "ok",
                  self |-> [extended EXCEPT
                               !.index = Some(index_add(Get(ready.index), rows))],
                  saves |-> TRUE]

\* add() that builds a new index from the batch instead of appending to it
add_memory_replaces(self, vectors, metadata) ==
    IF vectors = << >>
    THEN [status |-> "ok", self |-> self, saves |-> FALSE]
    ELSE IF Ragged(vectors)
    THEN [status |-> "ValueError", self |-> self, saves |-> FALSE]
    ELSE LET rows == [i \in 1 .. Len(vectors) |-> normalize_L2(vectors[i])]
         IN [status |-> "ok",
             self |-> [self EXCEPT
                          !.dimension = Some(Len(vectors[1])),
                          !.index = Some(index_add(IndexFlatIP(Len(vectors[1])), rows)),
                          !.metadata = metadata],
             saves |-> TRUE]

\* VectorStore.add up to (not including) its final save(): the object after
\* the call and whether save() is reached
add_memory(self, vectors, metadata) ==
    IF vectors = << >>
    THEN [status |-> "ok", self |-> self, saves |-> FALSE]
    ELSE IF Ragged(vectors)
    THEN [status |-> "ValueError", self |-> self, saves |-> FALSE]
    ELSE LET ready == IF self.index = None
                      THEN [self EXCEPT !.dimension = Some(Len(vectors[1])),
                                        !.index = Some(IndexFlatIP(Len(vectors[1])))]
                      ELSE self
             rows == [i \in 1 .. Len(vectors) |-> normalize_L2(vectors[i])]
         IN IF ~index_add_ok(Get(ready.index), rows)
            THEN [status |-> "AssertionError", self |-> ready, saves |-> FALSE]
            ELSE [status |-> "ok",
                  self |-> [ready EXCEPT
                               !.index = Some(index_add(Get(ready.index), rows)),
                               !.metadata = @ \o metadata],
                  saves |-> TRUE]

\* VectorStore.save: what each of the two files holds afterwards
save_index_file(self, ifile) ==
    IF self.index # None THEN Some(write_index(Get(self.index))) ELSE ifile

\* save() that writes the index file and leaves the metadata file as it was
save_meta_file_skipped(self, mfile) == mfile

save_meta_file(self, mfile) ==
    IF self.index # None
    THEN Some([metadata |-> self.metadata, dimension |-> self.dimension])
    ELSE mfile

\* search() without the clamp k = min(top_k, ntotal): faiss pads the missing
\* hits with id -1, which Python reads as the last metadata record
search_unclamped(self, query_vector, top_k) ==
    IF self.index = None \/ ntotal(Get(self.index)) = 0
    THEN [status |-> "ok", value |-> << >>]
    ELSE IF top_k = None
    THEN [status |-> "TypeError", value |-> << >>]
    ELSE LET index == Get(self.index)
             query == normalize_L2(query_vector)
             k == Get(top_k)
             hits == index_search(index, query, k)
         IN IF Len(query) # index.d \/ k <= 0
            THEN [status |-> "AssertionError", value |-> << >>]
            ELSE [status |-> "ok",
                  value |-> [i \in 1 .. k |->
                                IF i <= Len(hits)
                                THEN [metadata |-> self.metadata[hits[i].idx],
                                      score |-> hits[i].distance]
                                ELSE [metadata |-> self.metadata[Len(self.metadata)],
                                      score |-> 0 - Unit * Unit]]]

\* search() without the early return for an empty index
search_unguarded(self, query_vector, top_k) ==
    IF self.index = None
    THEN [status |-> "AttributeError", value |-> << >>]
    ELSE IF top_k = None
    THEN [status |-> "TypeError", value |-> << >>]
    ELSE LET index == Get(self.index)
             query == normalize_L2(query_vector)
             k == Min(Get(top_k), ntotal(index))
         IN IF Len(query) # index.d \/ k <= 0
            THEN [status |-> "AssertionError", value |-> << >>]
            ELSE LET hits == index_search(index, query, k)
                 IN [status |-> "ok",
                     value |-> [i \in 1 .. Len(hits) |->
                                   [metadata |-> self.metadata[hits[i].idx],
                                    score |-> hits[i].distance]]]

\* VectorStore.search
search(self, query_vector, top_k) ==
    IF self.index = None \/ ntotal(Get(self.index)) = 0
    THEN [status |-> "ok", value |-> << >>]
    ELSE IF top_k = None
    THEN [status |-> "TypeError", value |-> << >>]      \* min(None, ntotal)
    ELSE LET index == Get(self.index)
             query == normalize_L2(query_vector)
             k == Min(Get(top_k), ntotal(index))
         IN IF Len(query) # index.d \/ k <= 0
            THEN [status |-> "AssertionError", value |-> << >>]
            ELSE LET hits == index_search(index, query, k)
                     kept == SelectSeq(hits, LAMBDA h : h.idx - 1 < Len(self.metadata))
                 IN [status |-> "ok",
                     value |-> [i \in 1 .. Len(kept) |->
                                   [metadata |-> self.metadata[kept[i].idx],
                                    score |-> kept[i].distance]]]

----------------------------------------------------------------------------
(* ingest's batch (loader.py): one embedding and one metadata record a chunk *)

\* embedder.generate_embedding / generate_embeddings with the provider answering
generate_embedding(text) == Embedding(text)
generate_embeddings(texts) == [i \in 1 .. Len(texts) |-> generate_embedding(texts[i])]

\* metadata whose page is the chunk's ordinal from 0
ChunkMetadataPageFromZero(file, session_id, category) ==
    LET chunks == Chunks(file)
    IN [i \in 1 .. Len(chunks) |->
           [session_id |-> session_id,
            category |-> category,
            source |-> file,
            source_full_path |-> "/tmp/upload/" \o file,
            chunk_index |-> i - 1,
            page |-> i - 1,
            timestamp |-> None,
            text |-> chunks[i]]]

ChunkMetadata(file, session_id, category) ==
    LET chunks == Chunks(file)
    IN [i \in 1 .. Len(chunks) |->
           [session_id |-> session_id,
            category |-> category,
            source |-> file,
            source_full_path |-> "/tmp/upload/" \o file,
            chunk_index |-> i - 1,
            page |-> i,
            timestamp |-> None,
            text |-> chunks[i]]]

----------------------------------------------------------------------------
(* chunk_text (chunker.py).  A text is a sequence of characters; the tokenizer
   makes one token of a letter or of a blank followed by a letter, and one
   token of any other blank, so that decode(encode(text)) = text *)

Chars == {"a", " "}

RECURSIVE TextsOfLen(_)
TextsOfLen(n) ==
    IF n = 0 THEN {<< >>}
    ELSE {<<c>> \o t : c \in Chars, t \in TextsOfLen(n - 1)}

Texts == UNION {TextsOfLen(n) : n \in 0 .. MaxTextLen}

\* encoding.encode
RECURSIVE encode(_)
encode(text) ==
    IF text = << >> THEN << >>
    ELSE IF Head(text) = " " /\ Len(text) >= 2 /\ text[2] # " "
    THEN <<SubSeq(text, 1, 2)>> \o encode(SubSeq(text, 3, Len(text)))
    ELSE <<SubSeq(text, 1, 1)>> \o encode(Tail(text))

\* encoding.decode
decode(tokens) == Flatten(tokens)

\* str.strip
RECURSIVE lstrip(_)
lstrip(text) ==
    IF text # << >> /\ Head(text) = " " THEN lstrip(Tail(text)) ELSE text

RECURSIVE rstrip(_)
rstrip(text) ==
    IF text # << >> /\ text[Len(text)] = " "
    THEN rstrip(SubSeq(text, 1, Len(text) - 1)) ELSE text

strip(text) == rstrip(lstrip(text))

\* the positions a Python slice seq[start:end] takes from a sequence of n
SliceBound(i, n) == IF i < 0 THEN (IF n + i < 0 THEN 0 ELSE n + i) ELSE Min(i, n)
Slice(seq, start, end) ==
    SubSeq(seq, SliceBound(start, Len(seq)) + 1, SliceBound(end, Len(seq)))

\* settings.CHUNK_SIZE and settings.CHUNK_OVERLAP_PERCENT (in eighths: 0.125)
CHUNK_SIZE == 1024
CHUNK_OVERLAP_PERCENT == 1

\* the arguments: None takes the configured default; overlap_percent is
\* counted in eighths (0, 0.125, 0.5, 0.75, 1.0, 1.5)
ChunkSizeArgs == {None} \cup {Some(k) : k \in 1 .. MaxChunkSize}
OverlapPercentArgs == {None} \cup {Some(e) : e \in {0, 1, 4, 6, 8, 12}}

\* int(chunk_size * overlap_percent)
overlap_tokens(chunk_size, overlap_percent) == (chunk_size * overlap_percent) \div 8

ChunkerIdle ==
    [pc |-> "idle", text |-> << >>, chunk_size |-> 0, overlap_percent |-> 0,
     tokens |-> << >>, start |-> 0, windows |-> << >>, chunks |-> << >>]

\* chunk_text up to its loop: the defaults, the blank-text return and the
\* single-chunk return
ChunkTextCall(text, chunk_size_arg, overlap_percent_arg) ==
    /\ chunker.pc = "idle"
    /\ LET chunk_size == IF chunk_size_arg = None THEN CHUNK_SIZE
                         ELSE Get(chunk_size_arg)
           overlap_percent == IF overlap_percent_arg = None
                              THEN CHUNK_OVERLAP_PERCENT
                              ELSE Get(overlap_percent_arg)
           called == [ChunkerIdle EXCEPT !.text = text,
                                         !.chunk_size = chunk_size,
                                         !.overlap_percent = overlap_percent]
       IN chunker' =
             IF text = << >> \/ strip(text) = << >>
             THEN [called EXCEPT !.pc = "done"]
             ELSE IF Len(encode(text)) <= chunk_size
             THEN [called EXCEPT !.pc = "done", !.tokens = encode(text),
                                 !.chunks = <<text>>]
             ELSE [called EXCEPT !.pc = "loop", !.tokens = encode(text)]
    /\ UNCHANGED <<settings, sessions, issued, index_files, meta_files,
                   history_files, chat_sessions, vs, bot, pc, doc, ret>>

\* a loop whose next window starts one token after the previous window's end
ChunkTextLoopSkipping ==
    /\ chunker.pc = "loop"
    /\ chunker.start < Len(chunker.tokens)
    /\ Len(chunker.chunks) < MaxChunks
    /\ LET n == Len(chunker.tokens)
           end == chunker.start + chunker.chunk_size
           chunk_tokens == Slice(chunker.tokens, chunker.start, end)
           next == end + 1
       IN chunker' = [chunker EXCEPT
             !.chunks = @ \o <<strip(decode(chunk_tokens))>>,
             !.windows = @ \o <<<<SliceBound(chunker.start, n), SliceBound(end, n)>>>>,
             !.start = next,
             !.pc = IF next >= n THEN "done" ELSE "loop"]
    /\ UNCHANGED <<settings, sessions, issued, index_files, meta_files,
                   history_files, chat_sessions, vs, bot, pc, doc, ret>>

\* one pass of the while loop; windows records the token positions
\* [start, end) the slice took
ChunkTextLoop ==
    /\ chunker.pc = "loop"
    /\ chunker.start < Len(chunker.tokens)
    /\ Len(chunker.chunks) < MaxChunks
    /\ LET n == Len(chunker.tokens)
           end == chunker.start + chunker.chunk_size
           chunk_tokens == Slice(chunker.tokens, chunker.start, end)
           next == end - overlap_tokens(chunker.chunk_size, chunker.overlap_percent)
       IN chunker' = [chunker EXCEPT
             !.chunks = @ \o <<strip(decode(chunk_tokens))>>,
             !.windows = @ \o <<<<SliceBound(chunker.start, n), SliceBound(end, n)>>>>,
             !.start = next,
             !.pc = IF next >= n THEN "done" ELSE "loop"]
    /\ UNCHANGED <<settings, sessions, issued, index_files, meta_files,
                   history_files, chat_sessions, vs, bot, pc, doc, ret>>

\* return chunks
ChunkTextReturn ==
    /\ chunker.pc = "done"
    /\ chunker' = ChunkerIdle
    /\ UNCHANGED <<settings, sessions, issued, index_files, meta_files,
                   history_files, chat_sessions, vs, bot, pc, doc, ret>>

----------------------------------------------------------------------------
(* ChatBot (chat.py) *)

LLMAnswer == "answer"

\* what llm.invoke does: an answer, or an exception (generator unreachable)
LLMOutcomes == {"ok", "raise"}

\* prompts.get_prompt_by_mode: the template of a mode, the base prompt for a
\* name that is not in mode_map
Modes == {"chat", "summary", "points", "flashcards", "teacher", "exam"}
get_prompt_by_mode(mode) ==
    CASE mode = "chat" -> "base_prompt"
      [] mode = "summary" -> "summary_prompt"
      [] mode = "important" -> "important_points_prompt"
      [] mode = "points" -> "important_points_prompt"
      [] mode = "flashcards" -> "flashcards_prompt"
      [] mode = "teacher" -> "teacher_prompt"
      [] mode = "exam" -> "exam_questions_prompt"
      [] OTHER -> "base_prompt"

\* ChatBot.get_conversation_history: HumanMessage / AIMessage -> role dicts
get_conversation_history(messages) ==
    [i \in 1 .. Len(messages) |->
        [role |-> IF messages[i].type = "human" THEN "user" ELSE "assistant",
         content |-> messages[i].content]]

\* ChatBot.load_history: the messages after the call
load_history(messages, history_path, hfiles) ==
    IF history_path = None \/ hfiles[Get(history_path)] = None
    THEN messages
    ELSE LET saved == SelectSeq(Get(hfiles[Get(history_path)]).messages,
                                LAMBDA m : m.role \in {"user", "assistant"})
         IN [i \in 1 .. Len(saved) |->
                [type |-> IF saved[i].role = "user" THEN "human" ELSE "ai",
                 content |-> saved[i].content]]

\* a save_history that keeps the last exchange only
save_history_last_exchange(messages, sources) ==
    Some([messages |-> get_conversation_history(
                          SubSeq(messages, Len(messages) - 1, Len(messages))),
          last_sources |-> sources])

\* ChatBot.save_history: the history file after the call
save_history(messages, sources) ==
    Some([messages |-> get_conversation_history(messages), last_sources |-> sources])

\* ChatBot.__init__
ChatBot(vector_store_path, history_path, ifiles, mfiles, hfiles) ==
    [vector_store |-> IF vector_store_path # None
                      THEN Some(VectorStore(Get(vector_store_path),
                                            ifiles[Get(vector_store_path)],
                                            mfiles[Get(vector_store_path)]))
                      ELSE None,
     history_path |-> history_path,
     messages |-> load_history(<< >>, history_path, hfiles),
     system_prompt |-> get_prompt_by_mode("chat"),
     current_mode |-> "chat"]

\* a _retrieve_context whose sources list runs from the last result to the first
retrieve_context_sources_reversed(self, query, conf) ==
    LET top_k == IF conf.ALL_RESULTS THEN None ELSE Some(conf.TOP_K_RESULTS)
        found == search(Get(self.vector_store), generate_embedding(query), top_k)
        results == found.value
        n == Len(results)
    IN IF found.status # "ok"
       THEN [status |-> found.status, context |-> << >>, sources |-> << >>]
       ELSE [status |-> "ok",
             context |-> [i \in 1 .. n |->
                            [n |-> i,
                             source |-> results[i].metadata.source,
                             page |-> results[i].metadata.page,
                             category |-> results[i].metadata.category,
                             relevance |-> results[i].score,
                             content |-> results[i].metadata.text]],
             sources |-> [i \in 1 .. n |->
                            [source |-> results[n + 1 - i].metadata.source,
                             page |-> results[n + 1 - i].metadata.page,
                             category |-> results[n + 1 - i].metadata.category,
                             relevance |-> results[n + 1 - i].score]]]

\* ChatBot._retrieve_context
retrieve_context(self, query, conf) ==
    LET top_k == IF conf.ALL_RESULTS THEN None ELSE Some(conf.TOP_K_RESULTS)
        found == search(Get(self.vector_store), generate_embedding(query), top_k)
        results == found.value
    IN IF found.status # "ok"
       THEN [status |-> found.status, context |-> << >>, sources |-> << >>]
       ELSE [status |-> "ok",
             context |-> [i \in 1 .. Len(results) |->
                            [n |-> i,
                             source |-> results[i].metadata.source,
                             page |-> results[i].metadata.page,
                             category |-> results[i].metadata.category,
                             relevance |-> results[i].score,
                             content |-> results[i].metadata.text]],
             sources |-> [i \in 1 .. Len(results) |->
                            [source |-> results[i].metadata.source,
                             page |-> results[i].metadata.page,
                             category |-> results[i].metadata.category,
                             relevance |-> results[i].score]]]

\* ChatBot.set_mode
set_mode(self, mode) ==
    [self EXCEPT !.current_mode = mode, !.system_prompt = get_prompt_by_mode(mode)]

\* ChatBot.chat from the append of the user's message on: got is what the
\* retrieval gave
chat_generate(self, got, user_input, llm) ==
    IF got.status # "ok"
    THEN [status |-> got.status, self |-> self, context |-> << >>,
          sources |-> << >>, system_prompt |-> None, written |-> None]
    ELSE IF llm # "ok"
    THEN [status |-> "LLMError",
          self |-> [self EXCEPT !.messages =
                      Append(@, [type |-> "human", content |-> user_input])],
          context |-> got.context,
          sources |-> got.sources,
          system_prompt |-> Some(self.system_prompt),
          written |-> None]
    ELSE [status |-> "ok",
          self |-> [self EXCEPT !.messages =
                      @ \o <<[type |-> "human", content |-> user_input],
                             [type |-> "ai", content |-> LLMAnswer]>>],
          context |-> got.context,
          sources |-> got.sources,
          system_prompt |-> Some(self.system_prompt),
          written |-> IF self.history_path # None
                      THEN save_history(
                              self.messages
                                \o <<[type |-> "human", content |-> user_input],
                                     [type |-> "ai", content |-> LLMAnswer]>>,
                              got.sources)
                      ELSE None]

\* ChatBot.chat from the retrieval on, the mode being set
chat_retrieve(self, user_input, use_rag, llm, conf) ==
    chat_generate(self,
                  IF use_rag /\ self.vector_store # None
                  THEN retrieve_context(self, user_input, conf)
                  ELSE [status |-> "ok", context |-> << >>, sources |-> << >>],
                  user_input, llm)

\* a chat that keeps the prompt of the first mode that was ever set
chat_mode_sticky(self, user_input, use_rag, mode, llm, conf) ==
    chat_retrieve(IF mode # None /\ self.current_mode = "chat"
                       /\ Get(mode) # self.current_mode
                  THEN set_mode(self, Get(mode)) ELSE self,
                  user_input, use_rag, llm, conf)

\* ChatBot.chat(user_input, use_rag, mode) with the generator answering or
\* raising: the object afterwards, the context and the system prompt handed
\* to the generator (None: it was not called), the retrieved sources and the
\* history file (None: not written)
chat(self, user_input, use_rag, mode, llm, conf) ==
    chat_retrieve(IF mode # None /\ Get(mode) # self.current_mode
                  THEN set_mode(self, Get(mode)) ELSE self,
                  user_input, use_rag, llm, conf)

\* ChatBot.chat with no mode given and the generator answering
bot_chat(self, user_input, use_rag, conf) ==
    LET r == chat(self, user_input, use_rag, None, "ok", conf)
    IN [status |-> r.status, self |-> r.self, context |-> r.context,
        written |-> r.written]

----------------------------------------------------------------------------
(* What a call returned *)

Ret(op, inst, sid, args, status, value) ==
    [op |-> op, inst |-> inst, sid |-> sid, args |-> args, status |-> status,
     value |-> value]

NoCall == Ret("", 0, "", << >>, "ok", << >>)

InitCommon ==
    /\ settings \in [ALL_RESULTS : BOOLEAN, TOP_K_RESULTS : {TOP_K_RESULTS},
                     EMBEDDING_MODEL : {EMBEDDING_MODEL}]
    /\ sessions = [s \in SessionIds |-> None]
    /\ issued = {}
    /\ chunker = ChunkerIdle
    /\ index_files = [p \in VectorPaths |-> None]
    /\ meta_files = [p \in VectorPaths |-> None]
    /\ history_files = [p \in HistoryPaths |-> None]
    /\ chat_sessions = [s \in SessionIds |-> None]
    /\ vs = [i \in Inst |-> None]
    /\ bot = None
    /\ pc = [p \in Procs |-> "idle"]
    /\ doc = [p \in Procs |-> ""]
    /\ ret = NoCall

----------------------------------------------------------------------------
(* Library level: VectorStore and ChatBot objects on one storage path, each *)
(* call running to its end before the next (test_memory_persistence.py)     *)

\* vector_store = VectorStore(path)
VSConstruct(i) ==
    /\ vs' = [vs EXCEPT ![i] = Some(VectorStore(StorePath, index_files[StorePath],
                                                meta_files[StorePath]))]
    /\ ret' = Ret("VectorStore", i, "", << >>, "ok", << >>)
    /\ UNCHANGED <<settings, chunker, sessions, issued, index_files, meta_files, history_files,
                   chat_sessions, bot, pc, doc>>

\* vector_store.add(embeddings, metadata), with the batch ingest prepares for a file
VSAdd(i, file) ==
    /\ vs[i] # None
    /\ Count(Get(vs[i])) + Len(Chunks(file)) <= MaxEntries
    /\ LET self == Get(vs[i])
           path == self.storage_path
           metadata == ChunkMetadata(file, "s1", "notes")
           r == add_memory(self, generate_embeddings(Chunks(file)), metadata)
       IN /\ vs' = [vs EXCEPT ![i] = Some(r.self)]
          /\ index_files' = IF r.saves
                            THEN [index_files EXCEPT
                                    ![path] = save_index_file(r.self, @)]
                            ELSE index_files
          /\ meta_files' = IF r.saves
                           THEN [meta_files EXCEPT
                                   ![path] = save_meta_file(r.self, @)]
                           ELSE meta_files
          /\ ret' = Ret("add", i, "", metadata, r.status, << >>)
    /\ UNCHANGED <<settings, chunker, sessions, issued, history_files, chat_sessions, bot, pc, doc>>

\* vector_store.search(generate_embedding(query), top_k)
VSSearch(i, query, top_k) ==
    /\ vs[i] # None
    /\ LET r == search(Get(vs[i]), generate_embedding(query), top_k)
       IN ret' = Ret("search", i, "", <<query, top_k>>, r.status, r.value)
    /\ UNCHANGED <<settings, chunker, sessions, issued, index_files, meta_files, history_files,
                   chat_sessions, vs, bot, pc, doc>>

\* vector_store.save()
VSSave(i) ==
    /\ vs[i] # None
    /\ LET self == Get(vs[i])
       IN /\ index_files' = [index_files EXCEPT
                               ![self.storage_path] = save_index_file(self, @)]
          /\ meta_files' = [meta_files EXCEPT
                              ![self.storage_path] = save_meta_file(self, @)]
    /\ ret' = Ret("save", i, "", << >>, "ok", << >>)
    /\ UNCHANGED <<settings, chunker, sessions, issued, history_files, chat_sessions, vs, bot, pc, doc>>

\* vector_store.load()
VSLoad(i) ==
    /\ vs[i] # None
    /\ LET self == Get(vs[i])
       IN vs' = [vs EXCEPT ![i] = Some(load(self, index_files[self.storage_path],
                                            meta_files[self.storage_path]))]
    /\ ret' = Ret("load", i, "", << >>, "ok", << >>)
    /\ UNCHANGED <<settings, chunker, sessions, issued, index_files, meta_files, history_files,
                   chat_sessions, bot, pc, doc>>

\* bot = ChatBot(vector_store_path=..., history_path=...)
BotConstruct(vector_store_path, history_path) ==
    /\ bot' = Some(ChatBot(vector_store_path, history_path, index_files, meta_files,
                           history_files))
    /\ ret' = Ret("ChatBot", 0, "", <<vector_store_path, history_path>>, "ok", << >>)
    /\ UNCHANGED <<settings, chunker, sessions, issued, index_files, meta_files, history_files,
                   chat_sessions, vs, pc, doc>>

\* the messages the ChatBot object holds
BotMessages == IF bot = None THEN << >> ELSE Get(bot).messages

\* what is left of a library-level chat once bot.chat has run: r is what it did
BotChatDone(user_input, mode, r) ==
    /\ bot' = Some(r.self)
    /\ history_files' = IF r.written # None
                        THEN [history_files EXCEPT
                                ![Get(r.self.history_path)] = r.written]
                        ELSE history_files
    /\ ret' = Ret("chat", 0, "", <<user_input, mode, r.system_prompt>>,
                  r.status, r.context)

\* bot.chat(user_input, use_rag=True, mode=mode)
BotChat(user_input, mode, llm) ==
    /\ bot # None
    /\ BotChatDone(user_input, mode,
                   chat(Get(bot), user_input, TRUE, mode, llm, settings))
    /\ UNCHANGED <<settings, chunker, sessions, issued, index_files, meta_files, chat_sessions, vs,
                   pc, doc>>

\* Spec: VectorStore objects on one storage path
Init ==
    /\ InitCommon
    /\ settings.ALL_RESULTS

Next ==
    \/ \E i \in Inst : VSConstruct(i)
    \/ \E i \in Inst, file \in Docs : VSAdd(i, file)
    \/ \E i \in Inst, query \in Queries, top_k \in TopKs : VSSearch(i, query, top_k)
    \/ \E i \in Inst : VSSave(i)
    \/ \E i \in Inst : VSLoad(i)

Spec == Init /\ [][Next]_vars

\* SpecDim: the same objects, also handed batches of another dimension
NextDim ==
    \/ Next
    \/ \E i \in Inst, file \in OtherModelFiles : VSAdd(i, file)

SpecDim == Init /\ [][NextDim]_vars

\* SpecChunk: calls of chunk_text, pass by pass
NextChunk ==
    \/ \E text \in Texts, chunk_size \in ChunkSizeArgs,
          overlap_percent \in OverlapPercentArgs :
             ChunkTextCall(text, chunk_size, overlap_percent)
    \/ ChunkTextLoop
    \/ ChunkTextReturn

SpecChunk == Init /\ [][NextChunk]_vars

\* SpecBot: a ChatBot beside the VectorStore that fills its index
NextBot ==
    \/ VSConstruct(1)
    \/ \E file \in Docs : VSAdd(1, file)
    \/ \E query \in Queries, top_k \in TopKs : VSSearch(1, query, top_k)
    \/ \E vp \in {None, Some(StorePath)}, hp \in {None, Some(StoreHistoryPath)} :
          BotConstruct(vp, hp)
    \/ \E user_input \in Queries :
          /\ Len(BotMessages) + 2 <= MaxMessages
          /\ BotChat(user_input, None, "ok")

SpecBot == InitCommon /\ [][NextBot]_vars

\* SpecHistory: ChatBot objects made one after the other on one history
\* path, the generator answering every call
ModeArgs == {None} \cup {Some(m) : m \in Modes}

NextHistory ==
    \/ \E vp \in {None, Some(StorePath)} : BotConstruct(vp, Some(StoreHistoryPath))
    \/ \E user_input \in Queries, mode \in ModeArgs :
          /\ Len(BotMessages) + 2 <= MaxHistory
          /\ BotChat(user_input, mode, "ok")

SpecHistory == InitCommon /\ [][NextHistory]_vars

\* SpecLLM: the same, with a generator that may raise
NextLLM ==
    \/ BotConstruct(None, Some(StoreHistoryPath))
    \/ \E user_input \in Queries, llm \in LLMOutcomes :
          /\ Len(BotMessages) < MaxHistory
          /\ BotChat(user_input, None, llm)

SpecLLM == InitCommon /\ [][NextLLM]_vars

----------------------------------------------------------------------------
(* ingest step by step (loader.py, retriever.py): process p ingests a file
   into the workspace whose index is at StorePath; each file access is a step
   of its own, so that two processes interleave and a process may stop
   between any two of them *)

\* what a store holds: the rows of its index and its metadata records
Contents(self) ==
    [vectors |-> IF self.index = None THEN << >> ELSE Get(self.index).xb,
     metadata |-> self.metadata]

\* ingest up to the construction of the VectorStore; a file without chunks
\* returns the error result before any store is constructed
IngestBegin(p, file) ==
    /\ pc[p] = "idle"
    /\ doc' = [doc EXCEPT ![p] = file]
    /\ vs' = [vs EXCEPT ![p] = None]
    /\ pc' = [pc EXCEPT ![p] = IF Chunks(file) = << >> THEN "done" ELSE "load"]
    /\ UNCHANGED <<settings, chunker, sessions, issued, index_files, meta_files,
                   history_files, chat_sessions, bot, ret>>

\* a load() that reads the index file when the metadata file is missing
IngestLoadCheckPartial(p) ==
    /\ pc[p] = "load"
    /\ vs' = [vs EXCEPT ![p] =
          IF index_files[StorePath] # None /\ meta_files[StorePath] = None
          THEN Some([EmptyStore(StorePath) EXCEPT
                       !.index = Some(read_index(Get(index_files[StorePath])))])
          ELSE Some(EmptyStore(StorePath))]
    /\ pc' = [pc EXCEPT ![p] = IF index_files[StorePath] # None
                                    /\ meta_files[StorePath] # None
                               THEN "read_index" ELSE "add"]
    /\ UNCHANGED <<settings, chunker, sessions, issued, index_files, meta_files,
                   history_files, chat_sessions, bot, doc, ret>>

\* VectorStore.__init__ and load()'s os.path.exists test of the two files
IngestLoadCheck(p) ==
    /\ pc[p] = "load"
    /\ vs' = [vs EXCEPT ![p] = Some(EmptyStore(StorePath))]
    /\ pc' = [pc EXCEPT ![p] = IF index_files[StorePath] # None
                                    /\ meta_files[StorePath] # None
                               THEN "read_index" ELSE "add"]
    /\ UNCHANGED <<settings, chunker, sessions, issued, index_files, meta_files,
                   history_files, chat_sessions, bot, doc, ret>>

\* load(): faiss.read_index
IngestReadIndex(p) ==
    /\ pc[p] = "read_index"
    /\ vs' = [vs EXCEPT ![p] = Some([Get(@) EXCEPT
                 !.index = Some(read_index(Get(index_files[StorePath])))])]
    /\ pc' = [pc EXCEPT ![p] = "read_meta"]
    /\ UNCHANGED <<settings, chunker, sessions, issued, index_files, meta_files,
                   history_files, chat_sessions, bot, doc, ret>>

\* load(): pickle.load of the metadata file
IngestReadMeta(p) ==
    /\ pc[p] = "read_meta"
    /\ vs' = [vs EXCEPT ![p] = Some([Get(@) EXCEPT
                 !.metadata = Get(meta_files[StorePath]).metadata,
                 !.dimension = Get(meta_files[StorePath]).dimension])]
    /\ pc' = [pc EXCEPT ![p] = "add"]
    /\ UNCHANGED <<settings, chunker, sessions, issued, index_files, meta_files,
                   history_files, chat_sessions, bot, doc, ret>>

\* add() up to its save(): the rows and the records are appended in memory
IngestAdd(p) ==
    /\ pc[p] = "add"
    /\ Count(Get(vs[p])) + Len(Chunks(doc[p])) <= MaxEntries
    /\ LET r == add_memory(Get(vs[p]), generate_embeddings(Chunks(doc[p])),
                           ChunkMetadata(doc[p], "s1", "notes"))
       IN /\ vs' = [vs EXCEPT ![p] = Some(r.self)]
          /\ pc' = [pc EXCEPT ![p] = IF r.saves THEN "write_index" ELSE "raised"]
    /\ UNCHANGED <<settings, chunker, sessions, issued, index_files, meta_files,
                   history_files, chat_sessions, bot, doc, ret>>

\* save(): faiss.write_index
IngestWriteIndex(p) ==
    /\ pc[p] = "write_index"
    /\ index_files' = [index_files EXCEPT
                         ![StorePath] = save_index_file(Get(vs[p]), @)]
    /\ pc' = [pc EXCEPT ![p] = "write_meta"]
    /\ UNCHANGED <<settings, chunker, sessions, issued, meta_files, history_files,
                   chat_sessions, vs, bot, doc, ret>>

\* save() whose metadata file keeps the records already in it
IngestWriteMetaMerging(p) ==
    /\ pc[p] = "write_meta"
    /\ meta_files' = [meta_files EXCEPT ![StorePath] =
          IF @ = None THEN save_meta_file(Get(vs[p]), @)
          ELSE Some([metadata |-> Get(@).metadata \o Get(vs[p]).metadata,
                     dimension |-> Get(vs[p]).dimension])]
    /\ pc' = [pc EXCEPT ![p] = "done"]
    /\ UNCHANGED <<settings, chunker, sessions, issued, index_files, history_files,
                   chat_sessions, vs, bot, doc, ret>>

\* save(): pickle.dump of the metadata file
IngestWriteMeta(p) ==
    /\ pc[p] = "write_meta"
    /\ meta_files' = [meta_files EXCEPT
                        ![StorePath] = save_meta_file(Get(vs[p]), @)]
    /\ pc' = [pc EXCEPT ![p] = "done"]
    /\ UNCHANGED <<settings, chunker, sessions, issued, index_files, history_files,
                   chat_sessions, vs, bot, doc, ret>>

\* ingest returns its result dictionary, or add()'s exception leaves it
IngestReturn(p) ==
    /\ pc[p] \in {"done", "raised"}
    /\ pc' = [pc EXCEPT ![p] = "idle"]
    /\ ret' = IF pc[p] = "raised"
              THEN Ret("ingest", p, "s1", <<doc[p]>>, "raised", << >>)
              ELSE IF Chunks(doc[p]) = << >>
              THEN Ret("ingest", p, "s1", <<doc[p]>>, "error", <<0>>)
              ELSE Ret("ingest", p, "s1", <<doc[p]>>, "completed",
                       <<Len(Chunks(doc[p]))>>)
    /\ UNCHANGED <<settings, chunker, sessions, issued, index_files, meta_files,
                   history_files, chat_sessions, vs, bot, doc>>

\* the store as add() found it and as add() leaves it, for a process inside add
PreAdd(p) ==
    IF pc[p] = "add" THEN Contents(Get(vs[p]))
    ELSE LET now == Contents(Get(vs[p]))
             n == Len(Chunks(doc[p]))
         IN [vectors |-> SubSeq(now.vectors, 1, Len(now.vectors) - n),
             metadata |-> SubSeq(now.metadata, 1, Len(now.metadata) - n)]

PostAdd(p) ==
    IF pc[p] = "add"
    THEN Contents(add_memory(Get(vs[p]), generate_embeddings(Chunks(doc[p])),
                             ChunkMetadata(doc[p], "s1", "notes")).self)
    ELSE Contents(Get(vs[p]))

\* the process stops inside add(): its memory is gone, the files stay
Crash(p) ==
    /\ pc[p] \in {"add", "write_index", "write_meta"}
    /\ pc' = [pc EXCEPT ![p] = "crashed"]
    /\ vs' = [vs EXCEPT ![p] = None]
    /\ ret' = Ret("add", p, "s1", <<pc[p]>>, "killed", <<PreAdd(p), PostAdd(p)>>)
    /\ UNCHANGED <<settings, chunker, sessions, issued, index_files, meta_files,
                   history_files, chat_sessions, bot, doc>>

\* the process is started again
Restart(p) ==
    /\ pc[p] = "crashed"
    /\ pc' = [pc EXCEPT ![p] = "idle"]
    /\ UNCHANGED <<settings, chunker, sessions, issued, index_files, meta_files,
                   history_files, chat_sessions, vs, bot, doc, ret>>

\* one process ingesting file after file, stopping and starting again
NextCrash ==
    \/ \E file \in Docs : IngestBegin(1, file)
    \/ IngestLoadCheck(1)
    \/ IngestReadIndex(1)
    \/ IngestReadMeta(1)
    \/ IngestAdd(1)
    \/ IngestWriteIndex(1)
    \/ IngestWriteMeta(1)
    \/ IngestReturn(1)
    \/ Crash(1)
    \/ Restart(1)

SpecCrash == Init /\ [][NextCrash]_vars

\* two processes, each ingesting one file into the same workspace
NextRace ==
    \E p \in Procs :
        \/ \E file \in Docs : IngestBegin(p, file)
        \/ IngestLoadCheck(p)
        \/ IngestReadIndex(p)
        \/ IngestReadMeta(p)
        \/ IngestAdd(p)
        \/ IngestWriteIndex(p)
        \/ IngestWriteMeta(p)

SpecRace == Init /\ [][NextRace]_vars

----------------------------------------------------------------------------
(* The session table (db.py) *)

\* Database.update_session: a field given as None is left as it is
db_update_session(row, vector_index_path, chat_history_path) ==
    [row EXCEPT
       !.vector_index_path = IF vector_index_path # None
                             THEN vector_index_path ELSE @,
       !.chat_history_path = IF chat_history_path # None
                             THEN chat_history_path ELSE @]

\* Database._cleanup_session_files, file kind by file kind
cleanup_index_files(ifiles, session) ==
    IF session.vector_index_path # None
    THEN [ifiles EXCEPT ![Get(session.vector_index_path)] = None]
    ELSE ifiles

cleanup_meta_files(mfiles, session) ==
    IF session.vector_index_path # None
    THEN [mfiles EXCEPT ![Get(session.vector_index_path)] = None]
    ELSE mfiles

\* the history file is left where it is
cleanup_history_files_skipped(hfiles, session) == hfiles

cleanup_history_files(hfiles, session) ==
    IF session.chat_history_path # None
    THEN [hfiles EXCEPT ![Get(session.chat_history_path)] = None]
    ELSE hfiles

\* main.ensure_session_paths: the row afterwards
ensure_session_paths(session) ==
    [session EXCEPT
       !.vector_index_path = IF @ = None
                             THEN Some(VectorsDirPath(session.session_id)) ELSE @,
       !.chat_history_path = IF @ = None
                             THEN Some(HistoryJsonPath(session.session_id)) ELSE @]

----------------------------------------------------------------------------
(* The HTTP handlers (main.py), each request running to its end *)

\* POST /api/sessions
ApiCreateSession(sid, vector_index_path, chat_history_path) ==
    /\ sid \notin issued
    /\ issued' = issued \cup {sid}
    /\ sessions' = [sessions EXCEPT ![sid] = Some(
          [session_id |-> sid,
           vector_index_path |-> IF vector_index_path # None THEN vector_index_path
                                 ELSE Some(VectorsJsonPath(sid)),
           chat_history_path |-> IF chat_history_path # None THEN chat_history_path
                                 ELSE Some(HistoryJsonPath(sid))])]
    /\ ret' = Ret("create_session", 0, sid, << >>, "200", << >>)
    /\ UNCHANGED <<settings, chunker, index_files, meta_files, history_files, chat_sessions,
                   vs, bot, pc, doc>>

\* PATCH /api/sessions/{session_id}
ApiUpdateSession(sid, vector_index_path, chat_history_path) ==
    /\ sid \in issued
    /\ IF sessions[sid] = None
       THEN /\ ret' = Ret("update_session", 0, sid, << >>, "404", << >>)
            /\ UNCHANGED sessions
       ELSE /\ sessions' = [sessions EXCEPT ![sid] = Some(
                  db_update_session(Get(@), vector_index_path, chat_history_path))]
            /\ ret' = Ret("update_session", 0, sid, << >>, "200", << >>)
    /\ UNCHANGED <<settings, chunker, issued, index_files, meta_files, history_files,
                   chat_sessions, vs, bot, pc, doc>>

\* DELETE /api/sessions/{session_id}
ApiDeleteSession(sid) ==
    /\ sid \in issued
    /\ IF sessions[sid] = None
       THEN /\ ret' = Ret("delete_session", 0, sid, << >>, "404", << >>)
            /\ UNCHANGED <<sessions, index_files, meta_files, history_files,
                           chat_sessions>>
       ELSE LET session == Get(sessions[sid])
            IN /\ index_files' = cleanup_index_files(index_files, session)
               /\ meta_files' = cleanup_meta_files(meta_files, session)
               /\ history_files' = cleanup_history_files(history_files, session)
               /\ sessions' = [sessions EXCEPT ![sid] = None]
               /\ chat_sessions' = [chat_sessions EXCEPT ![sid] = None]
               /\ ret' = Ret("delete_session", 0, sid,
                             <<session.vector_index_path # None
                                 /\ index_files[Get(session.vector_index_path)] # None,
                               session.vector_index_path # None
                                 /\ meta_files[Get(session.vector_index_path)] # None,
                               session.chat_history_path # None
                                 /\ history_files[Get(session.chat_history_path)] # None>>,
                             "200",
                             <<session.vector_index_path,
                               session.chat_history_path>>)
    /\ UNCHANGED <<settings, chunker, issued, vs, bot, pc, doc>>

\* the number of vectors in the index files on disk
RECURSIVE Stored(_, _)
Stored(ifiles, paths) ==
    IF paths = {} THEN 0
    ELSE LET p == CHOOSE q \in paths : TRUE
         IN (IF ifiles[p] = None THEN 0 ELSE Get(ifiles[p]).ntotal)
            + Stored(ifiles, paths \ {p})

\* POST /upload: ingest(temp_path, session_id, category), then the cached
\* bot's vector store is reloaded
ApiUpload(sid, file, category) ==
    /\ sid \in issued
    /\ IF sessions[sid] = None
       THEN /\ ret' = Ret("upload", 0, sid, <<file>>, "500", << >>)
            /\ UNCHANGED <<sessions, index_files, meta_files, chat_sessions>>
       ELSE LET session == [Get(sessions[sid]) EXCEPT
                              !.vector_index_path =
                                 IF @ = None THEN Some(VectorsDirPath(sid)) ELSE @]
                path == Get(session.vector_index_path)
                chunks == Chunks(file)
                store == VectorStore(path, index_files[path], meta_files[path])
                r == add_memory(store, generate_embeddings(chunks),
                                ChunkMetadata(file, sid, category))
                wrote == chunks # << >> /\ r.saves
                ifiles == IF wrote
                          THEN [index_files EXCEPT
                                  ![path] = save_index_file(r.self, @)]
                          ELSE index_files
                mfiles == IF wrote
                          THEN [meta_files EXCEPT
                                  ![path] = save_meta_file(r.self, @)]
                          ELSE meta_files
            IN /\ Stored(index_files, VectorPaths) + Len(chunks) <= MaxUploaded
               /\ sessions' = [sessions EXCEPT ![sid] = Some(session)]
               /\ index_files' = ifiles
               /\ meta_files' = mfiles
               /\ chat_sessions' =
                     IF chat_sessions[sid] # None
                          /\ Get(chat_sessions[sid]).vector_store # None
                     THEN LET cached == Get(chat_sessions[sid])
                              held == Get(cached.vector_store)
                          IN [chat_sessions EXCEPT ![sid] = Some(
                                [cached EXCEPT !.vector_store = Some(
                                    load(held, ifiles[held.storage_path],
                                         mfiles[held.storage_path]))])]
                     ELSE chat_sessions
               /\ ret' = IF chunks = << >>
                         THEN Ret("upload", 0, sid, <<file>>, "200",
                                  <<"failed", 0>>)
                         ELSE IF r.status # "ok"
                         THEN Ret("upload", 0, sid, <<file>>, "500", << >>)
                         ELSE Ret("upload", 0, sid, <<file>>, "200",
                                  <<"completed", Len(chunks)>>)
    /\ UNCHANGED <<settings, chunker, issued, history_files, vs, bot, pc, doc>>

\* the messages of a session's conversation: those of its cached bot, else
\* those a bot made for it now would load
Conversation(sid) ==
    IF chat_sessions[sid] # None THEN Get(chat_sessions[sid]).messages
    ELSE IF sessions[sid] = None THEN << >>
    ELSE load_history(<< >>, ensure_session_paths(Get(sessions[sid])).chat_history_path,
                      history_files)

\* what the chat and the quick-action handlers do once the bot has chatted:
\* r is what bot.chat did
ChatReply(op, sid, query, mode, session, history_path, r) ==
    /\ sessions' = [sessions EXCEPT ![sid] = Some(session)]
    /\ chat_sessions' = [chat_sessions EXCEPT ![sid] = Some(r.self)]
    /\ history_files' =
          IF r.written # None
          THEN [history_files EXCEPT ![Get(history_path)] = r.written]
          ELSE history_files
    /\ ret' = IF r.status = "ok"
              THEN Ret(op, 0, sid, <<query, mode, r.system_prompt>>, "200",
                       r.context)
              ELSE Ret(op, 0, sid, <<query, mode, r.system_prompt>>, "500",
                       << >>)

\* the session's bot: the cached one, or one made on the session's paths
SessionBot(sid, session) ==
    IF chat_sessions[sid] # None
    THEN Get(chat_sessions[sid])
    ELSE ChatBot(session.vector_index_path, session.chat_history_path,
                 index_files, meta_files, history_files)

ChatWith(op, sid, query, mode, llm, session, cached) ==
    ChatReply(op, sid, query, mode, session, cached.history_path,
              chat(cached, query, TRUE, Some(mode), llm, settings))

\* what the chat and the quick-action handlers share: the session's row is
\* looked up, its bot is made and cached if it is not, and the bot chats
ChatOnSession(op, sid, query, mode, llm) ==
    IF sessions[sid] = None
    THEN /\ ret' = Ret(op, 0, sid, <<query, mode, None>>, "404", << >>)
         /\ UNCHANGED <<sessions, history_files, chat_sessions>>
    ELSE ChatWith(op, sid, query, mode, llm,
                  ensure_session_paths(Get(sessions[sid])),
                  SessionBot(sid, ensure_session_paths(Get(sessions[sid]))))

\* POST /chat
ApiChat(sid, message, mode_arg, llm) ==
    /\ sid \in issued
    /\ LET mode == IF mode_arg = None THEN "chat" ELSE Get(mode_arg)
       IN IF mode \notin Modes
          THEN /\ ret' = Ret("chat", 0, sid, <<message, mode, None>>, "400", << >>)
               /\ UNCHANGED <<sessions, history_files, chat_sessions>>
          ELSE ChatOnSession("chat", sid, message, mode, llm)
    /\ UNCHANGED <<settings, chunker, issued, index_files, meta_files, vs, bot, pc, doc>>

\* POST /explain-simple, /important-points, /revise-fast, /ask-questions with
\* no topic: the mode and the query each of them chats with
QuickActions == {"explain-simple", "important-points", "revise-fast", "ask-questions"}
QuickActionMode(endpoint) ==
    CASE endpoint = "explain-simple" -> "teacher"
      [] endpoint = "important-points" -> "points"
      [] endpoint = "revise-fast" -> "summary"
      [] endpoint = "ask-questions" -> "exam"
QuickActionQuery(endpoint) ==
    CASE endpoint = "explain-simple" -> "Explain this topic in simple terms"
      [] endpoint = "important-points" -> "What are the most important points"
      [] endpoint = "revise-fast" -> "Provide a summary of the key concepts"
      [] endpoint = "ask-questions" -> "Generate exam questions based on the content"

ApiQuickAction(sid, endpoint, llm) ==
    /\ sid \in issued
    /\ ChatOnSession(endpoint, sid, QuickActionQuery(endpoint),
                     QuickActionMode(endpoint), llm)
    /\ UNCHANGED <<settings, chunker, issued, index_files, meta_files, vs, bot, pc, doc>>

\* DELETE /sessions/{session_id}: clear the conversation
ApiClearSession(sid) ==
    /\ sid \in issued
    /\ IF chat_sessions[sid] = None
       THEN /\ ret' = Ret("clear_session", 0, sid, << >>, "404", << >>)
            /\ UNCHANGED <<history_files, chat_sessions>>
       ELSE LET cached == Get(chat_sessions[sid])
            IN /\ history_files' =
                     IF cached.history_path # None
                     THEN [history_files EXCEPT
                             ![Get(cached.history_path)] = save_history(<< >>, << >>)]
                     ELSE history_files
               /\ chat_sessions' = [chat_sessions EXCEPT ![sid] = None]
               /\ ret' = Ret("clear_session", 0, sid, << >>, "200", << >>)
    /\ UNCHANGED <<settings, chunker, sessions, issued, index_files, meta_files, vs, bot,
                   pc, doc>>

\* GET /sessions/{session_id}/history
ApiGetHistory(sid) ==
    /\ sid \in issued
    /\ IF sessions[sid] = None
       THEN ret' = Ret("get_chat_history", 0, sid, << >>, "404", << >>)
       ELSE LET history ==
                  IF chat_sessions[sid] # None
                  THEN get_conversation_history(Get(chat_sessions[sid]).messages)
                  ELSE IF history_files[HistoryJsonPath(sid)] # None
                  THEN Get(history_files[HistoryJsonPath(sid)]).messages
                  ELSE << >>
            IN ret' = Ret("get_chat_history", 0, sid, << >>, "200", history)
    /\ UNCHANGED <<settings, chunker, sessions, issued, index_files, meta_files,
                   history_files, chat_sessions, vs, bot, pc, doc>>

\* the server process starts again: chat_sessions is an empty dictionary, the
\* session table and the files are what they were
ServerRestart ==
    /\ chat_sessions' = [s \in SessionIds |-> None]
    /\ ret' = Ret("restart", 0, "", << >>, "ok", << >>)
    /\ UNCHANGED <<settings, chunker, sessions, issued, index_files, meta_files,
                   history_files, vs, bot, pc, doc>>

\* the files and messages the HTTP clients send
UploadedFiles == {"d1.txt", "blank.txt"}
Messages == {"alpha"}

ClientVectorArgs == {None} \cup {Some(p) : p \in ClientVectorPaths}
ClientHistoryArgs == {None} \cup {Some(p) : p \in ClientHistoryPaths}

NextApi ==
    \/ \E sid \in SessionIds, vp \in ClientVectorArgs, hp \in ClientHistoryArgs :
          ApiCreateSession(sid, vp, hp)
    \/ \E sid \in SessionIds, vp \in ClientVectorArgs, hp \in ClientHistoryArgs :
          ApiUpdateSession(sid, vp, hp)
    \/ \E sid \in SessionIds : ApiDeleteSession(sid)
    \/ \E sid \in SessionIds, file \in UploadedFiles, category \in Categories :
          ApiUpload(sid, file, category)
    \/ \E sid \in SessionIds, message \in Messages :
          /\ Len(Conversation(sid)) + 2 <= MaxMessages
          /\ ApiChat(sid, message, None, "ok")
    \/ \E sid \in SessionIds : ApiClearSession(sid)

SpecApi == InitCommon /\ [][NextApi]_vars

\* SpecSessionHistory: conversations of sessions made with and without a
\* history path of the client's, read back with and without a cached bot
NextSessionHistory ==
    \/ \E sid \in SessionIds, hp \in ClientHistoryArgs :
          ApiCreateSession(sid, None, hp)
    \/ \E sid \in SessionIds, message \in Queries :
          /\ Len(Conversation(sid)) + 2 <= MaxHistory
          /\ ApiChat(sid, message, None, "ok")
    \/ \E sid \in SessionIds : ApiGetHistory(sid)
    \/ \E sid \in SessionIds : ApiClearSession(sid)
    \/ ServerRestart

SpecSessionHistory == InitCommon /\ [][NextSessionHistory]_vars

\* SpecModes: one session's conversation under every mode, the quick actions
\* and a generator that may raise
ModeSessions == {"s1"}
ClientModes == ModeArgs \cup {Some("quiz")}

NextModes ==
    \/ \E sid \in ModeSessions : ApiCreateSession(sid, None, None)
    \/ \E sid \in ModeSessions, message \in Messages, mode \in ClientModes,
          llm \in LLMOutcomes :
          /\ Len(Conversation(sid)) < MaxHistory
          /\ ApiChat(sid, message, mode, llm)
    \/ \E sid \in ModeSessions, endpoint \in QuickActions, llm \in LLMOutcomes :
          /\ Len(Conversation(sid)) < MaxHistory
          /\ ApiQuickAction(sid, endpoint, llm)
    \/ \E sid \in ModeSessions : ApiClearSession(sid)

SpecModes == InitCommon /\ [][NextModes]_vars

----------------------------------------------------------------------------
(* generate_embeddings against a provider that may fail (embedder.py), and
   ingest as one call (loader.py) *)

\* the models settings.EMBEDDING_MODEL may name; the 768 components of a
\* nomic-embed-text vector are written as 2, the 1024 of mxbai-embed-large as 3
EmbeddingModels == {EMBEDDING_MODEL, "mxbai-embed-large"}

\* response.json()["embedding"] of a 200 response
ProviderEmbedding(model, text) ==
    IF model = EMBEDDING_MODEL THEN Embedding(text) ELSE Embedding(text) \o <<0>>

\* [0.0] * 768, in the scale in which 768 components are written as 2
FALLBACK_DIMENSION == 2
FallbackVector == [i \in 1 .. FALLBACK_DIMENSION |-> 0]

\* what requests.post does for one text: a 200 response, a response of
\* another status, or an exception (provider unreachable)
ProviderResponses == {"200", "500", "raise"}
ResponsesFor(n) == [1 .. n -> ProviderResponses]

\* the for loop of generate_embeddings; calls counts the requests sent
RECURSIVE embed_loop(_, _, _, _)
embed_loop(texts, responses, model, made) ==
    IF texts = << >>
    THEN [status |-> "ok", value |-> made.value, calls |-> made.calls]
    ELSE IF Head(responses) = "raise"
    THEN [status |-> "ConnectionError", value |-> << >>, calls |-> made.calls + 1]
    ELSE embed_loop(Tail(texts), Tail(responses), model,
                    [value |-> Append(made.value,
                                      IF Head(responses) = "200"
                                      THEN ProviderEmbedding(model, Head(texts))
                                      ELSE FallbackVector),
                     calls |-> made.calls + 1])

\* generate_embeddings(texts) under a model, the provider answering as given
generate_embeddings_via(texts, responses, model) ==
    embed_loop(texts, responses, model, [value |-> << >>, calls |-> 0])

\* the text extract_text finds in a file
IngestFiles == Docs \cup {"empty.txt"}
IngestCategories == {"notes", "qpapers"}
ExtractedText(file) ==
    CASE file = "d1.txt" -> <<"a">>
      [] file = "d2.txt" -> <<"a", " ", " ", "a", " ">>
      [] file = "blank.txt" -> <<" ", " ">>
      [] OTHER -> << >>

\* sources extract_text cannot turn into text: an extension detect_file_type
\* does not know, and a .txt file that is not UTF-8
UnsupportedFiles == {"notes.md"}
UnreadableFiles == {"latin1.txt"}

\* detect_file_type: by the extension
detect_file_type(file) ==
    IF file \in IngestFiles \cup UnreadableFiles THEN "txt" ELSE "unknown"

\* extract_text: the text, or the exception it raises
extract_text(file, file_type) ==
    IF file_type = "unknown"
    THEN [status |-> "ValueError", text |-> << >>]
    ELSE IF file \in UnreadableFiles
    THEN [status |-> "UnicodeDecodeError", text |-> << >>]
    ELSE [status |-> "ok", text |-> ExtractedText(file)]

\* clean_text: runs of whitespace become one blank, then strip
RECURSIVE collapse(_)
collapse(text) ==
    IF Len(text) < 2 THEN text
    ELSE IF text[1] = " " /\ text[2] = " " THEN collapse(Tail(text))
    ELSE <<Head(text)>> \o collapse(Tail(text))

clean_text(text) == strip(collapse(text))

\* chunk_text(cleaned_text) in ingest: nothing for a blank text, else the
\* chunks of the file
ChunksOf(file) ==
    LET cleaned_text == clean_text(extract_text(file, detect_file_type(file)).text)
    IN IF cleaned_text = << >> \/ strip(cleaned_text) = << >>
       THEN << >>
       ELSE Chunks(file)

\* an ingest that goes on to embed and store when there are no chunks
ingest_without_chunk_check(session, file, category, model, responses, ifile, mfile) ==
    LET chunks == ChunksOf(file)
        path == Get(session.vector_index_path)
        embedded == generate_embeddings_via(chunks, responses, model)
        store == VectorStore(path, ifile, mfile)
        r == add_memory(store, embedded.value,
                        ChunkMetadata(file, session.session_id, category))
    IN IF embedded.status # "ok"
       THEN [status |-> "raised", error |-> embedded.status, chunks_count |-> 0,
             calls |-> embedded.calls, ifile |-> ifile, mfile |-> mfile]
       ELSE IF r.status # "ok"
       THEN [status |-> "raised", error |-> r.status, chunks_count |-> 0,
             calls |-> embedded.calls, ifile |-> ifile, mfile |-> mfile]
       ELSE [status |-> "success", error |-> "", chunks_count |-> Len(chunks),
             calls |-> embedded.calls,
             ifile |-> IF r.saves THEN save_index_file(r.self, ifile) ELSE ifile,
             mfile |-> IF r.saves THEN save_meta_file(r.self, mfile) ELSE mfile]

\* ingest from the chunking on, for a session row that has its index path:
\* the result dictionary or the exception, the requests sent to the provider
\* and the two files afterwards
ingest(session, file, category, model, responses, ifile, mfile) ==
    LET chunks == ChunksOf(file)
        path == Get(session.vector_index_path)
        embedded == generate_embeddings_via(chunks, responses, model)
        store == VectorStore(path, ifile, mfile)
        r == add_memory(store, embedded.value,
                        ChunkMetadata(file, session.session_id, category))
    IN IF chunks = << >>
       THEN [status |-> "error", error |-> "", chunks_count |-> 0, calls |-> 0,
             ifile |-> ifile, mfile |-> mfile]
       ELSE IF embedded.status # "ok"
       THEN [status |-> "raised", error |-> embedded.status, chunks_count |-> 0,
             calls |-> embedded.calls, ifile |-> ifile, mfile |-> mfile]
       ELSE IF r.status # "ok"
       THEN [status |-> "raised", error |-> r.status, chunks_count |-> 0,
             calls |-> embedded.calls, ifile |-> ifile, mfile |-> mfile]
       ELSE [status |-> "success", error |-> "", chunks_count |-> Len(chunks),
             calls |-> embedded.calls,
             ifile |-> IF r.saves THEN save_index_file(r.self, ifile) ELSE ifile,
             mfile |-> IF r.saves THEN save_meta_file(r.self, mfile) ELSE mfile]

\* embeddings = generate_embeddings(chunks)
GenerateEmbeddings(file, responses) ==
    /\ LET r == generate_embeddings_via(Chunks(file), responses,
                                        settings.EMBEDDING_MODEL)
       IN ret' = Ret("generate_embeddings", 0, "", <<Chunks(file), responses>>,
                     r.status, r.value)
    /\ UNCHANGED <<settings, chunker, sessions, issued, index_files, meta_files,
                   history_files, chat_sessions, vs, bot, pc, doc>>

\* ingest(file_or_link, session_id, category)
Ingest(sid, file, category, responses) ==
    /\ Stored(index_files, VectorPaths) + Len(ChunksOf(file)) <= MaxUploaded
    /\ IF sessions[sid] = None
       THEN /\ ret' = Ret("ingest", 0, sid, <<file, responses, category>>, "raised",
                          [error |-> "ValueError", chunks_count |-> 0, calls |-> 0])
            /\ UNCHANGED <<sessions, index_files, meta_files>>
       ELSE LET session == [Get(sessions[sid]) EXCEPT
                              !.vector_index_path =
                                 IF @ = None THEN Some(VectorsDirPath(sid)) ELSE @]
                path == Get(session.vector_index_path)
                extracted == extract_text(file, detect_file_type(file))
                r == ingest(session, file, category, settings.EMBEDDING_MODEL,
                            responses, index_files[path], meta_files[path])
            IN /\ sessions' = [sessions EXCEPT ![sid] = Some(session)]
               /\ IF extracted.status # "ok"
                  THEN /\ UNCHANGED <<index_files, meta_files>>
                       /\ ret' = Ret("ingest", 0, sid, <<file, responses, category>>,
                                     "raised",
                                     [error |-> extracted.status, chunks_count |-> 0,
                                      calls |-> 0])
                  ELSE /\ index_files' = [index_files EXCEPT ![path] = r.ifile]
                       /\ meta_files' = [meta_files EXCEPT ![path] = r.mfile]
                       /\ ret' = Ret("ingest", 0, sid, <<file, responses, category>>,
                                     r.status,
                                     [error |-> r.error,
                                      chunks_count |-> r.chunks_count,
                                      calls |-> r.calls])
    /\ UNCHANGED <<settings, chunker, issued, history_files, chat_sessions, vs, bot,
                   pc, doc>>

\* SpecIngest: sessions are created and documents ingested, under either
\* embedding model and every behaviour of the provider
InitIngest ==
    /\ settings \in [ALL_RESULTS : {TRUE}, TOP_K_RESULTS : {TOP_K_RESULTS},
                     EMBEDDING_MODEL : EmbeddingModels]
    /\ sessions = [s \in SessionIds |-> None]
    /\ issued = {}
    /\ chunker = ChunkerIdle
    /\ index_files = [p \in VectorPaths |-> None]
    /\ meta_files = [p \in VectorPaths |-> None]
    /\ history_files = [p \in HistoryPaths |-> None]
    /\ chat_sessions = [s \in SessionIds |-> None]
    /\ vs = [i \in Inst |-> None]
    /\ bot = None
    /\ pc = [p \in Procs |-> "idle"]
    /\ doc = [p \in Procs |-> ""]
    /\ ret = NoCall

NextIngest ==
    \/ \E sid \in SessionIds : ApiCreateSession(sid, None, None)
    \/ \E file \in IngestFiles :
          \E responses \in ResponsesFor(Len(Chunks(file))) :
             GenerateEmbeddings(file, responses)
    \/ \E sid \in SessionIds, file \in IngestFiles, category \in Categories :
          \E responses \in ResponsesFor(Len(ChunksOf(file))) :
             Ingest(sid, file, category, responses)

SpecIngest == InitIngest /\ [][NextIngest]_vars

\* SpecProvenance: documents of either category ingested into the sessions,
\* the provider answering every request
NextProvenance ==
    \/ \E sid \in SessionIds : ApiCreateSession(sid, None, None)
    \/ \E sid \in SessionIds, file \in IngestFiles, category \in IngestCategories :
          Ingest(sid, file, category, [i \in 1 .. Len(ChunksOf(file)) |-> "200"])

SpecProvenance == InitIngest /\ [][NextProvenance]_vars

\* SpecExtract: the same, and sources whose text cannot be extracted
NextExtract ==
    \/ NextIngest
    \/ \E sid \in SessionIds, file \in UnsupportedFiles \cup UnreadableFiles,
          category \in Categories :
             Ingest(sid, file, category, << >>)

SpecExtract == InitIngest /\ [][NextExtract]_vars

----------------------------------------------------------------------------
(* Claims on the VectorStore object (Spec) *)

\* the store a returned call was made on
Callee == Get(vs[ret.inst])

\* a fresh VectorStore constructed now on the path of `self`
Fresh(self) ==
    VectorStore(self.storage_path, index_files[self.storage_path],
                meta_files[self.storage_path])

\* C1: in every reachable state of a VectorStore (after any sequence of
\* construction, add, search, save and load calls on one storage path) the
\* number of vectors held by the index equals the number of metadata records.
C1_VectorCountEqualsMetadataCount ==
    \A i \in Inst :
        vs[i] # None => Count(Get(vs[i])) = Len(Get(vs[i]).metadata)

\* C1's case: a store that was reloaded from a pair another store wrote
C1_Witness ==
    /\ ret.op = "load"
    /\ Count(Callee) >= 2
    /\ \E j \in Inst : j # ret.inst /\ vs[j] # None /\ Count(Get(vs[j])) = Count(Callee)

\* C2: search with top_k unspecified/null on a non-empty index returns one
\* (metadata, score) pair for every stored vector, sorted by descending
\* score, without raising.
C2_SearchAllReturnsEveryEntry ==
    (ret.op = "search" /\ ret.args[2] = None /\ Count(Callee) > 0) =>
        /\ ret.status = "ok"
        /\ Len(ret.value) = Count(Callee)
        /\ \A i \in 1 .. Len(ret.value) - 1 :
              ret.value[i].score >= ret.value[i + 1].score

\* C4: every add with non-empty input is a durability checkpoint: when add
\* returns, the persisted index file and metadata file describe exactly the
\* in-memory contents (all entries stored so far and the established
\* dimension).
C4_AddIsDurabilityCheckpoint ==
    (ret.op = "add" /\ ret.status = "ok" /\ ret.args # << >>) =>
        LET self == Callee
            ifile == index_files[self.storage_path]
            mfile == meta_files[self.storage_path]
        IN /\ ifile # None /\ mfile # None
           /\ Get(ifile).ntotal = Count(self)
           /\ read_index(Get(ifile)) = Get(self.index)
           /\ Get(mfile).metadata = self.metadata
           /\ Get(mfile).dimension = self.dimension
           /\ self.dimension = Some(Get(ifile).d)

\* C4's case: a batch added on top of entries stored earlier
C4_Witness ==
    /\ ret.op = "add" /\ ret.status = "ok" /\ ret.args # << >>
    /\ Count(Callee) > Len(ret.args)

\* C5: persistence round trip: after the adds made on a VectorStore, a fresh
\* VectorStore constructed on the same storage path holds the same ordered
\* entries and dimension, and returns for any query and top_k the same
\* results in the same order.  Stated for the store whose non-empty add has
\* just returned, and for a store that is the only one on its path.
C5_PersistenceRoundTrip ==
    \A i \in Inst :
        (/\ vs[i] # None
         /\ \/ (ret.op = "add" /\ ret.inst = i /\ ret.status = "ok"
                  /\ ret.args # << >>)
            \/ \A j \in Inst \ {i} : vs[j] = None) =>
            LET self == Get(vs[i])
                fresh == Fresh(self)
            IN /\ fresh.index = self.index
               /\ fresh.metadata = self.metadata
               /\ fresh.dimension = self.dimension
               /\ \A query \in Queries, top_k \in TopKs :
                     search(fresh, generate_embedding(query), top_k)
                       = search(self, generate_embedding(query), top_k)

\* C5's case: two batches added, the second with rows that needed normalizing
C5_Witness ==
    /\ ret.op = "add" /\ ret.status = "ok"
    /\ Count(Callee) = 3
    /\ Callee.metadata[3].text = "gamma"
    /\ Fresh(Callee).metadata = Callee.metadata

\* C9: top-k clamp: on an index holding n >= 1 entries, search with top_k > n
\* returns exactly n results, one per stored entry and none repeated, and
\* does not raise; with 1 <= top_k <= n it returns exactly top_k results.
C9_TopKClamp ==
    (ret.op = "search" /\ ret.args[2] # None /\ Get(ret.args[2]) >= 1
       /\ Count(Callee) >= 1) =>
        LET self == Callee
            n == Count(self)
            k == Get(ret.args[2])
            q == normalize_L2(generate_embedding(ret.args[1]))
        IN /\ ret.status = "ok"
           /\ Len(ret.value) = IF k > n THEN n ELSE k
           /\ \E f \in [1 .. Len(ret.value) -> 1 .. n] :
                 /\ \A a, b \in 1 .. Len(ret.value) : a # b => f[a] # f[b]
                 /\ \A a \in 1 .. Len(ret.value) :
                       /\ ret.value[a].metadata = self.metadata[f[a]]
                       /\ ret.value[a].score = Dot(Get(self.index).xb[f[a]], q)

\* C9's case: more results asked for than the index holds
C9_Witness ==
    /\ ret.op = "search" /\ ret.args[2] # None
    /\ Count(Callee) >= 2
    /\ Get(ret.args[2]) > Count(Callee)
    /\ Len(ret.value) = Count(Callee)

----------------------------------------------------------------------------
(* Claims on the ChatBot object (SpecBot) *)

\* C10: graceful empty retrieval: search on an index with no stored vectors
\* returns an empty sequence for every top_k including null, and a chat on
\* a bot with an empty index or with no vector store configured proceeds
\* with an empty context and no error.
C10_EmptyRetrievalIsGraceful ==
    /\ (ret.op = "search" /\ Count(Callee) = 0) =>
          (ret.status = "ok" /\ ret.value = << >>)
    /\ (/\ ret.op = "chat"
        /\ \/ Get(bot).vector_store = None
           \/ Count(Get(Get(bot).vector_store)) = 0) =>
          (ret.status = "ok" /\ ret.value = << >>
             /\ Get(bot).messages[Len(Get(bot).messages)].type = "ai")

\* C10's case: a chat on a bot whose store is empty, in return-everything mode
C10_Witness ==
    /\ ret.op = "chat" /\ ret.status = "ok"
    /\ settings.ALL_RESULTS
    /\ Get(bot).vector_store # None
    /\ Count(Get(Get(bot).vector_store)) = 0

\* a is the beginning of b
IsPrefix(a, b) == Len(a) <= Len(b) /\ SubSeq(b, 1, Len(a)) = a

\* C11: a dimension mismatch is fatal for that add call only: an add that
\* raises leaves the object's index, metadata list and dimension and both
\* persisted files exactly as they were; and every row of an index has the
\* index's one dimension.
C11_DimensionMismatchFatalForThatAdd ==
    /\ [](\A i \in Inst : (vs[i] # None /\ Get(vs[i]).index # None) =>
            LET index == Get(Get(vs[i]).index)
            IN /\ Get(vs[i]).dimension = Some(index.d)
               /\ \A k \in 1 .. ntotal(index) : Len(index.xb[k]) = index.d)
    /\ [][(ret'.op = "add" /\ ret'.status # "ok") =>
            /\ vs' = vs
            /\ index_files' = index_files
            /\ meta_files' = meta_files]_vars

\* an add of two-dimensional rows has raised on an index of three dimensions
C11_Witness ==
    /\ ret.op = "add" /\ ret.status = "AssertionError"
    /\ Count(Callee) = 1
    /\ Callee.dimension = Some(3)
    /\ Len(generate_embedding(ret.args[1].text)) = 2

\* C13: the index is append-only: over an add or a search on a VectorStore
\* the rows and the metadata records it held are the beginning of those it
\* holds afterwards, and search changes neither the object nor the files.
C13_AppendOnly ==
    [][/\ (ret'.op \in {"add", "search"}) =>
            LET before == Contents(Get(vs[ret'.inst]))
                after == Contents(Get(vs'[ret'.inst]))
            IN /\ IsPrefix(before.vectors, after.vectors)
               /\ IsPrefix(before.metadata, after.metadata)
       /\ (ret'.op = "search") =>
            /\ vs' = vs
            /\ index_files' = index_files
            /\ meta_files' = meta_files]_vars

\* the second document has been appended after the first
C13_Witness ==
    /\ ret.op = "add" /\ ret.status = "ok"
    /\ Count(Callee) = 3
    /\ Callee.metadata[1].source = "d1.txt"
    /\ Callee.metadata[3].source = "d2.txt"
    /\ Get(Callee.index).xb[1] = normalize_L2(generate_embedding("alpha"))

\* the search results the chat just made was given: the bot's store is the
\* one it searched
Retrieved ==
    search(Get(Get(bot).vector_store), generate_embedding(ret.args[1]),
           IF settings.ALL_RESULTS THEN None ELSE Some(settings.TOP_K_RESULTS)).value

\* C23: _retrieve_context numbers the context entries 1..n in the order of
\* the search results, which is by descending score, and the sources list
\* saved with the history has the same length and order, its k-th element
\* carrying the source, page, category and score of the k-th result.
C23_RetrievalFormattingPreservesRanking ==
    (/\ ret.op = "chat"
     /\ ret.status = "ok"
     /\ Get(bot).vector_store # None
     /\ Get(bot).history_path # None) =>
        LET results == Retrieved
            context == ret.value
            sources == Get(history_files[Get(Get(bot).history_path)]).last_sources
        IN /\ Len(context) = Len(results)
           /\ Len(sources) = Len(results)
           /\ \A k \in 1 .. Len(results) :
                 /\ context[k].n = k
                 /\ context[k].content = results[k].metadata.text
                 /\ context[k].source = results[k].metadata.source
                 /\ sources[k].source = results[k].metadata.source
                 /\ sources[k].page = results[k].metadata.page
                 /\ sources[k].category = results[k].metadata.category
                 /\ sources[k].relevance = results[k].score
           /\ \A k \in 1 .. Len(results) - 1 :
                 context[k].relevance >= context[k + 1].relevance

\* C23's case: a chat that retrieved entries of different scores from
\* different documents
C23_Witness ==
    /\ ret.op = "chat"
    /\ ret.status = "ok"
    /\ bot # None
    /\ Get(bot).history_path # None
    /\ Len(ret.value) >= 2
    /\ ret.value[1].relevance > ret.value[2].relevance
    /\ ret.value[1].source # ret.value[2].source

----------------------------------------------------------------------------
(* Claims on the conversation history (SpecHistory, SpecLLM) *)

\* what a freshly constructed ChatBot on the history path loads
Persisted ==
    ChatBot(None, Some(StoreHistoryPath), index_files, meta_files,
            history_files).messages

\* user and assistant messages in turn, starting with the user
Alternating(messages) ==
    /\ Len(messages) % 2 = 0
    /\ \A i \in 1 .. Len(messages) :
          messages[i].type = IF i % 2 = 1 THEN "human" ELSE "ai"

\* C24: chat history survives restarts: nothing is persisted before the first
\* chat, every successful chat through a ChatBot on the history path adds its
\* user message and the answer, in this order, after the messages persisted
\* before, no other step changes them, and a freshly constructed ChatBot
\* holds exactly the persisted messages; so after k successful chats a fresh
\* ChatBot loads 2k messages, alternating, in the original order.
C24_HistorySurvivesRestarts ==
    /\ Persisted = << >>
    /\ [](Alternating(Persisted))
    /\ [](ret.op = "ChatBot" => Get(bot).messages = Persisted)
    /\ [][IF ret'.op = "chat" /\ ret'.status = "ok"
          THEN Persisted' = Persisted
                              \o <<[type |-> "human", content |-> ret'.args[1]],
                                   [type |-> "ai", content |-> LLMAnswer]>>
          ELSE Persisted' = Persisted]_vars

\* C24's case: a fresh ChatBot that loaded the four messages of two chats
C24_Witness ==
    /\ ret.op = "ChatBot"
    /\ Len(Get(bot).messages) = 4
    /\ Get(bot).messages[1].content # Get(bot).messages[3].content
    /\ Get(bot).current_mode = "chat"

\* no user message is followed by another user message
NoTwoUserMessages(messages) ==
    \A i \in 1 .. Len(messages) - 1 :
       ~(messages[i].type = "human" /\ messages[i + 1].type = "human")

\* C28: a chat in which the generator raises leaves the ChatBot's message
\* list and the persisted history as they were before the call, so in every
\* reachable state neither of them holds two user messages in a row.
C28_FailedGenerationLeavesConversation ==
    /\ [][(ret'.op = "chat" /\ ret'.status = "LLMError") =>
             /\ Get(bot').messages = Get(bot).messages
             /\ history_files' = history_files]_vars
    /\ [](NoTwoUserMessages(BotMessages))
    /\ [](NoTwoUserMessages(Persisted))

----------------------------------------------------------------------------
(* Claims on the HTTP handlers (SpecApi) *)

\* the session ids of the records in the metadata file at a path
RecordOwners(path) ==
    IF meta_files[path] = None THEN {}
    ELSE {Get(meta_files[path]).metadata[i].session_id :
             i \in DOMAIN Get(meta_files[path]).metadata}

\* C6: workspace isolation: every metadata record stored in the index a
\* workspace reads from carries that workspace's session_id, and an upload
\* into workspace A leaves the index file and the metadata file of every
\* other workspace B as they were.
C6_WorkspaceIsolation ==
    /\ [](\A s \in SessionIds :
            (sessions[s] # None /\ Get(sessions[s]).vector_index_path # None) =>
                RecordOwners(Get(Get(sessions[s]).vector_index_path)) \subseteq {s})
    /\ [][(ret'.op = "upload") =>
            \A b \in SessionIds \ {ret'.sid} :
                (sessions[b] # None /\ Get(sessions[b]).vector_index_path # None) =>
                    LET path == Get(Get(sessions[b]).vector_index_path)
                    IN /\ index_files'[path] = index_files[path]
                       /\ meta_files'[path] = meta_files[path]]_vars

\* C8: after DELETE /api/sessions/{id} answers 200, the session's row, the
\* .index and .meta files at its recorded vector index path, the history file
\* at its recorded chat history path and its cached ChatBot are all absent;
\* and an index or metadata file goes from present to absent only in such a
\* step, at the deleted session's recorded path.
C8_DeleteRemovesEverything ==
    /\ []((ret.op = "delete_session" /\ ret.status = "200") =>
            /\ sessions[ret.sid] = None
            /\ chat_sessions[ret.sid] = None
            /\ ret.value[1] # None =>
                  /\ index_files[Get(ret.value[1])] = None
                  /\ meta_files[Get(ret.value[1])] = None
            /\ ret.value[2] # None => history_files[Get(ret.value[2])] = None)
    /\ [][\A path \in VectorPaths :
            (\/ (index_files[path] # None /\ index_files'[path] = None)
             \/ (meta_files[path] # None /\ meta_files'[path] = None)) =>
                /\ ret'.op = "delete_session" /\ ret'.status = "200"
                /\ ret'.value[1] = Some(path)]_vars

\* a delete that found and removed an index file, a metadata file and a
\* history file
C8_Witness ==
    /\ ret.op = "delete_session" /\ ret.status = "200"
    /\ ret.args = <<TRUE, TRUE, TRUE>>
    /\ sessions[ret.sid] = None
    /\ index_files[Get(ret.value[1])] = None
    /\ history_files[Get(ret.value[2])] = None

\* the messages persisted at a history path
PersistedAt(hfiles, path) ==
    IF hfiles[path] = None THEN << >> ELSE Get(hfiles[path]).messages

\* C25: clearing a conversation (DELETE /sessions/{id}) only clears the chat
\* messages: when it succeeds the history persisted for the session holds no
\* message and the cached bot is dropped, while the session's row and every
\* index and metadata file are as they were.
C25_ClearOnlyClearsMessages ==
    [][(ret'.op = "clear_session" /\ ret'.status = "200") =>
          /\ chat_sessions[ret'.sid] # None
          /\ chat_sessions'[ret'.sid] = None
          /\ sessions[ret'.sid] # None
          /\ PersistedAt(history_files',
                         Get(Get(sessions[ret'.sid]).chat_history_path)) = << >>
          /\ sessions' = sessions
          /\ index_files' = index_files
          /\ meta_files' = meta_files]_vars

\* C27: when an upload into a session completes while the session has a
\* cached ChatBot, the bot's in-memory index and metadata equal the ones
\* persisted for the session when the upload request returns.
C27_CacheCoherentAfterUpload ==
    (/\ ret.op = "upload"
     /\ ret.status = "200"
     /\ ret.value[1] = "completed"
     /\ chat_sessions[ret.sid] # None) =>
        LET path == Get(Get(sessions[ret.sid]).vector_index_path)
            persisted == VectorStore(path, index_files[path], meta_files[path])
            held == Get(chat_sessions[ret.sid]).vector_store
        IN /\ held # None
           /\ Get(held).index = persisted.index
           /\ Get(held).metadata = persisted.metadata

\* C29: the cached ChatBot of a session reads the index and the history at
\* the paths the session's row holds now, after any sequence of chat, upload
\* and PATCH requests.
C29_CachedBotUsesCurrentPaths ==
    \A sid \in SessionIds :
       (chat_sessions[sid] # None /\ sessions[sid] # None) =>
          LET row == Get(sessions[sid])
              cached == Get(chat_sessions[sid])
          IN /\ cached.vector_store # None
             /\ Some(Get(cached.vector_store).storage_path) = row.vector_index_path
             /\ cached.history_path = row.chat_history_path

\* C30: GET /sessions/{id}/history returns the history persisted at the
\* session's chat_history_path, with a cached ChatBot and without one, for
\* every session including one created with a chat_history_path of the
\* client's.
C30_HistoryEndpointReadsPersistedHistory ==
    (ret.op = "get_chat_history" /\ ret.status = "200") =>
        ret.value = PersistedAt(history_files,
                                Get(Get(sessions[ret.sid]).chat_history_path))

----------------------------------------------------------------------------
(* Claims on ingest step by step (SpecCrash, SpecRace) *)

\* C3: crash safety at batch granularity: once the process has stopped inside
\* add, a fresh VectorStore constructed on the same storage path holds either
\* the complete contents add found or the complete contents add would leave.
C3_CrashSafeAtBatchGranularity ==
    (pc[1] = "crashed") =>
        Contents(VectorStore(StorePath, index_files[StorePath],
                             meta_files[StorePath]))
            \in {ret.value[1], ret.value[2]}

\* the two ingests have finished and each VectorStore was constructed before
\* the other's save had written both files, so each holds its own document only
BothDoneApart ==
    /\ \A p \in Procs : pc[p] = "done" /\ vs[p] # None
    /\ \A p \in Procs : Get(vs[p]).metadata = ChunkMetadata(doc[p], "s1", "notes")

\* C7: concurrent ingestion into one workspace is an unguarded race: when the
\* two ingests both construct their VectorStore before either has saved, what
\* is persisted afterwards is the index of one of them and the metadata of one
\* of them, never the two documents together; the witness is the schedule
\* that leaves one document's metadata beside an index of another length.
C7_ConcurrentIngestLosesUpdate ==
    BothDoneApart =>
        /\ Get(meta_files[StorePath]).metadata
              \in {Get(vs[p]).metadata : p \in Procs}
        /\ Some(read_index(Get(index_files[StorePath])))
              \in {Get(vs[p]).index : p \in Procs}

C7_Witness ==
    /\ BothDoneApart
    /\ doc[1] # doc[2]
    /\ Get(meta_files[StorePath]).metadata = Get(vs[1]).metadata
    /\ Get(index_files[StorePath]).ntotal # Len(Get(meta_files[StorePath]).metadata)

----------------------------------------------------------------------------
(* Claims on chunk_text (SpecChunk) *)

\* chunk_size - floor(chunk_size * overlap_percent) of the call in progress
Stride == chunker.chunk_size
             - overlap_tokens(chunker.chunk_size, chunker.overlap_percent)

\* 0 <= overlap_percent < 1
FractionInRange == chunker.overlap_percent >= 0 /\ chunker.overlap_percent < 8

\* the number of token positions two windows have in common
Shared(w1, w2) ==
    LET lo == IF w1[1] >= w2[1] THEN w1[1] ELSE w2[1]
        hi == Min(w1[2], w2[2])
    IN IF hi > lo THEN hi - lo ELSE 0

\* C14: chunk_text terminates for every input: with a stride that is not
\* positive the call is rejected before any window is produced, so it never
\* enters its loop.
C14_NonPositiveStrideRejected ==
    (chunker.pc # "idle" /\ Stride <= 0) =>
        (chunker.pc # "loop" /\ chunker.windows = << >>)

\* C15: overlap bound: for a token stream longer than T and 0 <= f < 1, every
\* chunk after the first, the final partial one included, shares exactly
\* floor(T*f) tokens with its predecessor.
C15_OverlapBound ==
    (Len(chunker.tokens) > chunker.chunk_size /\ FractionInRange) =>
        \A k \in 2 .. Len(chunker.windows) :
            Shared(chunker.windows[k - 1], chunker.windows[k])
               = overlap_tokens(chunker.chunk_size, chunker.overlap_percent)

\* the windows made so far start at 0, stride by stride, each beginning no
\* later than its predecessor's end
WindowsInStep ==
    \A k \in 1 .. Len(chunker.windows) :
        /\ chunker.windows[k][1] = (k - 1) * Stride
        /\ k > 1 => chunker.windows[k][1] <= chunker.windows[k - 1][2]

\* the chunks returned cover every token position of the text
Covered ==
    IF chunker.windows = << >>
    THEN chunker.chunks = <<chunker.text>>
    ELSE /\ WindowsInStep
         /\ chunker.windows[Len(chunker.windows)][2] = Len(chunker.tokens)
         /\ Len(chunker.chunks) = Len(chunker.windows)

\* C16 as stated: for any non-empty input and 0 <= f < 1 the chunks returned
\* cover every token position of the input with no gap.
C16_CoverageOfNonEmptyText ==
    (chunker.pc = "done" /\ chunker.text # << >> /\ FractionInRange) => Covered

\* C16: chunk coverage: for any input that is not blank and 0 <= f < 1,
\* window k starts at k * (T - floor(T*f)), no window starts after its
\* predecessor's end, and the last window ends at the stream's end.
C16_ChunkCoverage ==
    /\ (chunker.pc # "idle" /\ FractionInRange) => WindowsInStep
    /\ (chunker.pc = "done" /\ strip(chunker.text) # << >> /\ FractionInRange)
          => Covered

\* a text with blanks in it has been cut into three overlapping windows
C16_Witness ==
    /\ chunker.pc = "done" /\ FractionInRange
    /\ Len(chunker.windows) >= 3
    /\ Stride < chunker.chunk_size
    /\ chunker.text # strip(chunker.text)
    /\ Covered

\* C17: single-chunk short-circuit: a text that is not blank and has at most
\* T tokens comes back as exactly one chunk, the text without its leading and
\* trailing whitespace.
C17_SingleChunkIsTrimmedText ==
    (/\ chunker.pc = "done"
     /\ strip(chunker.text) # << >>
     /\ Len(encode(chunker.text)) <= chunker.chunk_size) =>
        chunker.chunks = <<strip(chunker.text)>>

----------------------------------------------------------------------------
(* Claims on generate_embeddings and ingest (SpecIngest, SpecProvenance) *)

IsZeroVector(v) == Len(v) > 0 /\ \A k \in 1 .. Len(v) : v[k] = 0

\* C18: generate_embeddings never aborts a batch: it returns one vector per
\* input text, in input order; where the provider call raised or answered with
\* a non-success status the position holds an all-zero vector, and every other
\* text is embedded.
C18_DegradationNeverAbortsBatch ==
    ret.op = "generate_embeddings" =>
        LET texts == ret.args[1]
            responses == ret.args[2]
        IN /\ ret.status = "ok"
           /\ Len(ret.value) = Len(texts)
           /\ \A i \in 1 .. Len(texts) :
                 IF responses[i] = "200"
                 THEN ret.value[i] = ProviderEmbedding(settings.EMBEDDING_MODEL, texts[i])
                 ELSE IsZeroVector(ret.value[i])

\* an ingest of a file with chunks into an existing session, in which the
\* provider answered every request, at least one with success and at least
\* one without
SomeEmbeddingsFailed ==
    /\ ret.op = "ingest"
    /\ sessions[ret.sid] # None
    /\ LET responses == ret.args[2]
       IN /\ \A i \in 1 .. Len(responses) : responses[i] # "raise"
          /\ \E i \in 1 .. Len(responses) : responses[i] = "200"
          /\ \E i \in 1 .. Len(responses) : responses[i] = "500"

\* C19: the zero vector put in place of a failed embedding has the dimension
\* of the successfully embedded chunks of the batch, so an ingestion in which
\* only some embeddings failed is accepted by add and indexes every chunk.
C19_PartialFailureStillIndexed ==
    SomeEmbeddingsFailed =>
        /\ ret.status = "success"
        /\ ret.value.chunks_count = Len(ChunksOf(ret.args[1]))
        /\ LET path == Get(Get(sessions[ret.sid]).vector_index_path)
           IN /\ index_files[path] # None
              /\ Get(index_files[path]).ntotal >= Len(ChunksOf(ret.args[1]))

\* C20: when the extracted text is empty or whitespace-only, chunk_text yields
\* no chunk and ingest returns status "error" with chunks_count 0 without
\* raising, sends no request to the embedding provider, and leaves the index
\* files and the VectorStore objects as they were.
C20_ZeroChunkIngestIsStructuredError ==
    [][(/\ ret'.op = "ingest"
        /\ sessions[ret'.sid] # None
        /\ strip(ExtractedText(ret'.args[1])) = << >>)
       => /\ ChunksOf(ret'.args[1]) = << >>
          /\ ret'.status = "error"
          /\ ret'.value.chunks_count = 0
          /\ ret'.value.calls = 0
          /\ index_files' = index_files
          /\ meta_files' = meta_files
          /\ vs' = vs]_vars

C20_Witness ==
    /\ ret.op = "ingest"
    /\ ret.args[1] = "blank.txt"
    /\ ret.status = "error"
    /\ \E p \in VectorPaths : index_files[p] # None

\* the metadata records and the vector count an index path holds on disk
StoredMetadata(mfiles, path) ==
    IF mfiles[path] = None THEN << >> ELSE Get(mfiles[path]).metadata
StoredCount(ifiles, path) ==
    IF ifiles[path] = None THEN 0 ELSE Get(ifiles[path]).ntotal
StoredCodes(ifiles, path) ==
    IF ifiles[path] = None THEN << >> ELSE Get(ifiles[path]).codes

\* C22: an ingest that returns status "success" for a document of n >= 1
\* chunks returns chunks_count n and appends exactly n entries to the
\* workspace's index and metadata files, after everything stored before; the
\* i-th appended record (from 0) has chunk_index i, page i + 1, the
\* workspace's session_id, the given category, the source name and path, and
\* the text of chunk i.
C22_SuccessfulIngestAppendsRecords ==
    [][(ret'.op = "ingest" /\ ret'.status = "success") =>
        LET file == ret'.args[1]
            category == ret'.args[3]
            chunks == ChunksOf(file)
            n == Len(chunks)
            path == Get(Get(sessions'[ret'.sid]).vector_index_path)
            before == StoredMetadata(meta_files, path)
            after == StoredMetadata(meta_files', path)
        IN /\ n >= 1
           /\ ret'.value.chunks_count = n
           /\ StoredCount(index_files', path) = StoredCount(index_files, path) + n
           /\ IsPrefix(StoredCodes(index_files, path), StoredCodes(index_files', path))
           /\ Len(after) = Len(before) + n
           /\ IsPrefix(before, after)
           /\ \A i \in 0 .. n - 1 :
                 LET record == after[Len(before) + i + 1]
                 IN /\ record.chunk_index = i
                    /\ record.page = i + 1
                    /\ record.session_id = ret'.sid
                    /\ record.category = category
                    /\ record.source = file
                    /\ record.source_full_path = "/tmp/upload/" \o file
                    /\ record.text = chunks[i + 1]]_vars

C22_Witness ==
    /\ ret.op = "ingest"
    /\ ret.status = "success"
    /\ ret.args[3] = "qpapers"
    /\ LET path == Get(Get(sessions[ret.sid]).vector_index_path)
       IN /\ StoredCount(index_files, path) > ret.value.chunks_count
          /\ StoredMetadata(meta_files, path)[1].category = "notes"

----------------------------------------------------------------------------
(* Claims on ingest with sources that cannot be extracted (SpecExtract) *)

\* C21: ingesting an unsupported or unreadable source into an existing
\* workspace returns a failure result with no chunks, no exception reaches the
\* caller, and the workspace's index files are left as they were.
C21_ExtractionFailureIsStructured ==
    [][(/\ ret'.op = "ingest"
        /\ sessions[ret'.sid] # None
        /\ extract_text(ret'.args[1], detect_file_type(ret'.args[1])).status # "ok")
       => /\ ret'.status = "error"
          /\ ret'.value.chunks_count = 0
          /\ index_files' = index_files
          /\ meta_files' = meta_files]_vars

----------------------------------------------------------------------------
(* Claims on the modes of a session's conversation (SpecModes) *)

\* C26: the mode is resolved for each request: whenever a chat request with
\* one of the six modes, or a quick action, reaches the generator, the system
\* prompt handed to it is the template of that request's mode, whatever modes
\* the earlier requests on the same cached bot used.
C26_ModeResolvedPerRequest ==
    (/\ ret.op \in {"chat"} \cup QuickActions
     /\ ret.args[2] \in Modes
     /\ ret.args[3] # None) =>
        /\ Get(ret.args[3]) = get_prompt_by_mode(ret.args[2])
        /\ ret.op \in QuickActions => ret.args[2] = QuickActionMode(ret.op)

\* C26's case: a chat in mode "chat" answered by a cached bot whose first
\* exchange was the teacher-mode quick action
C26_Witness ==
    /\ ret.op = "chat"
    /\ ret.status = "200"
    /\ ret.args[2] = "chat"
    /\ chat_sessions[ret.sid] # None
    /\ Len(Get(chat_sessions[ret.sid]).messages) = 4
    /\ Get(chat_sessions[ret.sid]).messages[1].content
          = QuickActionQuery("explain-simple")

====
